---- MODULE Spec2Model ----
(***************************************************************************)
(* A model of logro (templexxx/logro): a size-rotated log writer.          *)
(*                                                                         *)
(*   Spec       the Rotation instance of src/logro.go:650-902 (the mutex   *)
(*              version): producers calling Write, Sync and Close, the     *)
(*              bufIO write buffer, the sync-job channel, the sync loop,   *)
(*              open() with its rename/create failures, and the backups.   *)
(*   SpecBufIO  the buffered writer of src/bufio.go alone, over a sink     *)
(*              that behaves like errorWriterTest (src/backup.go:334-342). *)
(*   SpecOpen   listBackups and open() alone: the output file, its backup  *)
(*              files and the heap of backups (src/backup.go:1-137).       *)
(*   SpecRing   the circular staging buffer of src/unnamed/part_005 and    *)
(*              the Rotation that stages through it                        *)
(*              (src/unnamed/part_004).                                    *)
(*   SpecLive   Spec with the fairness the scheduling of Close and of the  *)
(*              sync loop gives.                                           *)
(*   SpecBackups  listBackups, parseTime and makeBackupFP over a directory *)
(*              of named entries (src/backup.go:66-137).                   *)
(*   SpecHeap   the Backups heap alone (src/backup.go:22-54).              *)
(*   SpecConfig Config.adjust over raw configurations (src/config.go).     *)
(*                                                                         *)
(* Bytes are modelled as distinct positive integers, numbered in the order *)
(* the payloads are handed to Write, so that loss, duplication and         *)
(* reordering are all visible in a file's content.                         *)
(***************************************************************************)
EXTENDS Integers, Sequences, FiniteSets, TLC

\* ---------------------------------------------------------------- bounds
\* Largest bufIO capacity tried by SpecBufIO (capacities 0..MaxCap).
MaxCap == 2
\* Entries the directory of SpecBackups holds at most.
MaxDir == 4
\* Number of heap.Push calls made in one behaviour of SpecHeap, and the largest
\* timestamp pushed.
MaxPush == 4
\* Longest payload of one write (lengths 0..MaxLen).
MaxLen == 3
\* Total number of payload bytes handed to write in one behaviour of SpecBufIO.
MaxTotal == 6
\* Total number of payload bytes handed to Write in one behaviour of Spec and
\* of SpecRing.
MaxBytes == 6
\* Number of calls of Write, Sync and Close made in one behaviour of Spec and
\* of SpecRing.
MaxCalls == 4
\* The buffer size of the configurations of Spec; the file-write size of
\* SpecRing, whose buffer is one byte larger.
MaxBufSize == 2
\* Backup files the directory may hold before New, beside one of second 0.
PreStamps == 2
\* Capacity of the channel r.syncJobs (16 in src/logro.go:706, scaled down) and
\* of the channels fileWriteJobs and flushJobs of SpecRing (256, scaled down).
ChanCap == 2
\* Milliseconds per second (1000, scaled down).
MsPerSec == 2
\* No behaviour opens more handles: each rotation takes MaxSize bytes.
MaxHandles == 1 + MaxBytes
\* Seconds per minute (60, scaled down).
SecPerMin == 2
\* Largest zone offset, in minutes (14 hours, scaled down).
MaxZone == 1
\* The last second of the year 9999, the last year backupTimeFmt can hold
\* (scaled down); the first second of the year 0 is as far before second 0.
LastSec == 3
\* Bits of an int64 (64, scaled down).
IntBits == 7
\* pageSize is 1 << PageBits (12, scaled down).
PageBits == 2
\* kb is 1 << KbBits (10, scaled down: less than a page).
KbBits == 1
\* mb is 1 << MbBits (20, scaled down: some pages).
MbBits == 3

\* The state of each specification; the variables are described where the
\* specification that moves them is written, and keep the value 0 under the
\* other specifications.
VARIABLES bio

VARIABLES cfg, isRunning, mu, f, fileWritten, dirty, buf, bufNil, syncJobs,
          chClosed, loop, files, disk, backups, now, pc, arg, ret, last, g

VARIABLES ring, rs

VARIABLES bkp

VARIABLES conf

rotVars == <<cfg, isRunning, mu, f, fileWritten, dirty, buf, bufNil, syncJobs,
             chClosed, loop, files, disk, backups, now, pc, arg, ret, last, g>>

ringVars == <<ring, rs>>

vars == <<rotVars, bio, ringVars, bkp, conf>>

\* The values the variables of a specification keep while another one runs.
RotIdle ==
  /\ cfg = 0 /\ isRunning = 0 /\ mu = 0 /\ f = 0 /\ fileWritten = 0 /\ dirty = 0
  /\ buf = 0 /\ bufNil = 0 /\ syncJobs = 0 /\ chClosed = 0 /\ loop = 0
  /\ files = 0 /\ disk = 0 /\ backups = 0 /\ now = 0
  /\ pc = 0 /\ arg = 0 /\ ret = 0 /\ last = 0 /\ g = 0

BufIOIdle == bio = 0

RingIdle == ring = 0 /\ rs = 0

BkIdle == bkp = 0

ConfIdle == conf = 0

\* ---------------------------------------------------------------- helpers
Min(a, b) == IF a < b THEN a ELSE b

\* The bytes lo+1 .. lo+n, in order: the payload of the next write.
Payload(lo, n) == [i \in 1..n |-> lo + i]

Take(s, n) == SubSeq(s, 1, n)
Drop(s, n) == SubSeq(s, n + 1, Len(s))

\* ------------------------------------------------------------ file names
\* A file name is a sequence of tokens, each standing for a run of characters:
\* "-" and "." for themselves, words such as "a" and "log", and the decimal
\* numbers ToString gives. All files are in the directory of the output file,
\* so that a path is the name of its file (filepath.Base, filepath.Join).

\* strings.HasPrefix
HasPrefix(str, prefix) ==
  Len(str) >= Len(prefix) /\ SubSeq(str, 1, Len(prefix)) = prefix

\* strings.HasSuffix
HasSuffix(str, suffix) ==
  Len(str) >= Len(suffix) /\ SubSeq(str, Len(str) - Len(suffix) + 1, Len(str)) = suffix

\* The index of the last "." among name[1..i] (0: none).
RECURSIVE lastDot(_, _)
lastDot(name, i) ==
  IF i = 0 THEN 0
  ELSE IF name[i] = "." THEN i
  ELSE lastDot(name, i - 1)

\* filepath.Ext: the suffix beginning at the final dot, empty if there is no
\* dot.
Ext(name) ==
  LET i == lastDot(name, Len(name))
  IN IF i = 0 THEN <<>> ELSE SubSeq(name, i, Len(name))

\* getPrefixAndExt
getPrefixAndExt(outputPath) ==
  LET ext == Ext(outputPath)
  IN [prefix |-> SubSeq(outputPath, 1, Len(outputPath) - Len(ext)) \o <<"-">>,
      ext |-> ext]

\* ------------------------------------------------------------------ time
\* A time.Time is [sec, ms, off]: the Unix second of the instant, its
\* millisecond, and the offset in seconds of its location at that instant
\* (0 for UTC). Locations have offsets that are no whole number of minutes
\* (local mean time, Africa/Monrovia until 1972).
Unix(t) == t.sec

UTC(t) == [t EXCEPT !.off = 0]

\* Integer division as Go does it, truncated toward zero.
Quo(a, b) == IF a < 0 THEN -((-a) \div b) ELSE a \div b

\* The wall-clock seconds "2006-01-02T15:04:05" holds with a year of four
\* digits.
FmtWalls == (-LastSec)..LastSec

FmtMillis == 0..(MsPerSec - 1)

FmtZones == 0..MaxZone

\* Time.Format(backupTimeFmt): the wall clock to the second, ".", the
\* milliseconds, and the zone: "Z" for offset 0, else the sign and the offset
\* cut to minutes.
time_Format(t) ==
  LET zone == Quo(t.off, SecPerMin)
  IN <<ToString(t.sec + t.off), ".", ToString(t.ms)>> \o
     (IF t.off = 0 THEN <<"Z">>
      ELSE IF zone < 0 THEN <<"-", ToString(-zone)>>
      ELSE <<"+", ToString(zone)>>)

\* The number a token is the decimal form of, among those of S.
Atoi(tok, S) == CHOOSE n \in S : ToString(n) = tok

IsNumber(tok, S) == \E n \in S : ToString(n) = tok

\* time_Parse taking every zone as east of UTC.
time_Parse_unsigned(value) ==
  LET fields == /\ Len(value) \in {4, 5}
                /\ IsNumber(value[1], FmtWalls)
                /\ value[2] = "."
                /\ IsNumber(value[3], FmtMillis)
      utc    == fields /\ Len(value) = 4 /\ value[4] = "Z"
      zoned  == fields /\ Len(value) = 5 /\ value[4] \in {"+", "-"}
                       /\ IsNumber(value[5], FmtZones)
      off    == IF ~zoned THEN 0 ELSE Atoi(value[5], FmtZones) * SecPerMin
  IN IF utc \/ zoned
       THEN [err |-> FALSE,
             t |-> [sec |-> Atoi(value[1], FmtWalls) - off,
                    ms |-> Atoi(value[3], FmtMillis), off |-> off]]
       ELSE [err |-> TRUE, t |-> [sec |-> 0, ms |-> 0, off |-> 0]]

\* time.Parse(backupTimeFmt, value): [err, t]. The wall clock less the zone
\* offset is the instant; a year of another width, a field that is no number
\* and a text that goes on after the zone are errors.
time_Parse(value) ==
  LET fields == /\ Len(value) \in {4, 5}
                /\ IsNumber(value[1], FmtWalls)
                /\ value[2] = "."
                /\ IsNumber(value[3], FmtMillis)
      utc    == fields /\ Len(value) = 4 /\ value[4] = "Z"
      zoned  == fields /\ Len(value) = 5 /\ value[4] \in {"+", "-"}
                       /\ IsNumber(value[5], FmtZones)
      off    == IF ~zoned THEN 0
                ELSE IF value[4] = "-" THEN -(Atoi(value[5], FmtZones) * SecPerMin)
                ELSE Atoi(value[5], FmtZones) * SecPerMin
  IN IF utc \/ zoned
       THEN [err |-> FALSE,
             t |-> [sec |-> Atoi(value[1], FmtWalls) - off,
                    ms |-> Atoi(value[3], FmtMillis), off |-> off]]
       ELSE [err |-> TRUE, t |-> [sec |-> 0, ms |-> 0, off |-> 0]]

\* parseTime
parseTime(fp, prefix, ext) ==
  IF ~HasPrefix(fp, prefix) THEN 0
  ELSE IF ~HasSuffix(fp, ext) THEN 0
  ELSE LET tsStr == SubSeq(fp, Len(prefix) + 1, Len(fp) - Len(ext))
           r     == time_Parse(tsStr)
       IN IF r.err THEN 0 ELSE Unix(r.t)

\* makeBackupFP: [fp, ts].
makeBackupFP(name, local, t) ==
  LET ext    == Ext(name)
      prefix == SubSeq(name, 1, Len(name) - Len(ext))
      t1     == IF ~local THEN UTC(t) ELSE t
  IN [fp |-> prefix \o <<"-">> \o time_Format(t1) \o ext, ts |-> Unix(t1)]

\* ------------------------------------------------------------------ sink
\* What an io.Writer answers to its k-th Write (k counted from 0 within one
\* bufIO operation) when offered len bytes. The first sb.ok calls accept
\* everything; from then on the writer answers like errorWriterTest{n, m, err}:
\* it accepts len*n/m bytes and reports err.
SinkWrite(sb, k, len) ==
  IF k < sb.ok
    THEN [n |-> len, err |-> "nil"]
    ELSE [n |-> (len * sb.num) \div sb.den, err |-> sb.err]

\* A writer that accepts every byte offered.
GoodSink == [ok |-> 0, num |-> 1, den |-> 1, err |-> "nil"]

\* errorWriterTests (src/backup.go:344-351).
errorWriterTests ==
  { [ok |-> 0, num |-> 0, den |-> 1, err |-> "nil"],
    [ok |-> 0, num |-> 1, den |-> 2, err |-> "nil"],
    [ok |-> 0, num |-> 1, den |-> 1, err |-> "nil"],
    [ok |-> 0, num |-> 0, den |-> 1, err |-> "ErrClosedPipe"],
    [ok |-> 0, num |-> 1, den |-> 2, err |-> "ErrClosedPipe"],
    [ok |-> 0, num |-> 1, den |-> 1, err |-> "ErrClosedPipe"] }

\* ----------------------------------------------------------------- bufIO
\* A bufIO is [data, err, w]: data is buf[0:n] (so n = Len(data)), err the
\* sticky error, w the name of the writer. The capacity len(buf) and the way the
\* writer behaves during the call are passed beside it.
newBufIO(w) == [data |-> <<>>, err |-> "nil", w |-> w]

\* bufIO_reset that also drops the bytes buffered.
bufIO_reset_clears(b, w) == [b EXCEPT !.w = w, !.data = <<>>]

\* bufIO_reset with b.w = w forgotten.
bufIO_reset_keepsSink(b, w) == b

\* bufIO.reset
bufIO_reset(b, w) == [b EXCEPT !.w = w]

avail(cap, b) == cap - Len(b.data)

buffered(b) == Len(b.data)

\* bufIO_flush without the test of the sticky error.
bufIO_flush_ignoresErr(b, sb, k) ==
  IF Len(b.data) = 0
    THEN [b |-> b, flushed |-> 0, err |-> "nil", out |-> <<>>, k |-> k]
  ELSE
    LET r   == SinkWrite(sb, k, Len(b.data))
        err == IF r.n < Len(b.data) /\ r.err = "nil" THEN "ErrShortWrite" ELSE r.err
    IN IF err # "nil"
         THEN [b |-> [b EXCEPT !.data = Drop(@, r.n), !.err = err],
               flushed |-> r.n, err |-> err, out |-> Take(b.data, r.n), k |-> k + 1]
         ELSE [b |-> [b EXCEPT !.data = <<>>],
               flushed |-> r.n, err |-> "nil", out |-> b.data, k |-> k + 1]

\* bufIO.flush: the result is the new bufIO, the count flushed, the error
\* returned, the bytes the writer received and the number of writer calls made.
bufIO_flush(b, sb, k) ==
  IF b.err # "nil"
    THEN [b |-> b, flushed |-> 0, err |-> b.err, out |-> <<>>, k |-> k]
  ELSE IF Len(b.data) = 0
    THEN [b |-> b, flushed |-> 0, err |-> "nil", out |-> <<>>, k |-> k]
  ELSE
    LET r   == SinkWrite(sb, k, Len(b.data))
        err == IF r.n < Len(b.data) /\ r.err = "nil" THEN "ErrShortWrite" ELSE r.err
    IN IF err # "nil"
         THEN [b |-> [b EXCEPT !.data = Drop(@, r.n), !.err = err],
               flushed |-> r.n, err |-> err, out |-> Take(b.data, r.n), k |-> k + 1]
         ELSE [b |-> [b EXCEPT !.data = <<>>],
               flushed |-> r.n, err |-> "nil", out |-> b.data, k |-> k + 1]

\* bufIO_writeBypass with nn += n forgotten.
bufIO_writeBypass_noCount(st, sb) ==
  LET r == SinkWrite(sb, st.k, Len(st.p))
  IN [st EXCEPT !.b.err = r.err,
                !.fw    = @ + r.n,
                !.out   = @ \o Take(st.p, r.n),
                !.p     = Drop(@, r.n),
                !.k     = @ + 1,
                !.paths = @ \cup {"bypass"},
                !.short = @ \/ r.n < Len(st.p) \/ r.err # "nil",
                !.hang  = (r.n = 0 /\ r.err = "nil")]

\* One iteration of the loop of bufIO.write, on the loop state
\* st = [b, p, nn, fw, out, k, paths, short, hang]: the large write on an
\* empty buffer (lines 60-64, 71-72). k counts the calls made to the writer,
\* short says one of them took fewer bytes than offered or returned an error.
bufIO_writeBypass(st, sb) ==
  LET r == SinkWrite(sb, st.k, Len(st.p))
  IN [st EXCEPT !.b.err = r.err,
                !.fw    = @ + r.n,
                !.nn    = @ + r.n,
                !.out   = @ \o Take(st.p, r.n),
                !.p     = Drop(@, r.n),
                !.k     = @ + 1,
                !.paths = @ \cup {"bypass"},
                !.short = @ \/ r.n < Len(st.p) \/ r.err # "nil",
                \* Nothing accepted and no error: the next iteration is this one again.
                !.hang  = (r.n = 0 /\ r.err = "nil")]

\* bufIO_writeFill with the slice p = p[n:] forgotten.
bufIO_writeFill_keepsP(cap, st, sb) ==
  LET n  == Min(avail(cap, st.b), Len(st.p))
      fl == bufIO_flush([st.b EXCEPT !.data = @ \o Take(st.p, n)], sb, st.k)
  IN [st EXCEPT !.b     = fl.b,
                !.fw    = @ + fl.flushed,
                !.nn    = @ + n,
                !.out   = @ \o fl.out,
                !.k     = fl.k,
                !.short = @ \/ fl.err # "nil",
                !.paths = @ \cup {"fill"}]

\* bufIO_writeFill with fw += fn forgotten.
bufIO_writeFill_noForward(cap, st, sb) ==
  LET n  == Min(avail(cap, st.b), Len(st.p))
      fl == bufIO_flush([st.b EXCEPT !.data = @ \o Take(st.p, n)], sb, st.k)
  IN [st EXCEPT !.b     = fl.b,
                !.nn    = @ + n,
                !.out   = @ \o fl.out,
                !.p     = Drop(@, n),
                !.k     = fl.k,
                !.short = @ \/ fl.err # "nil",
                !.paths = @ \cup {"fill"}]

\* The other iteration: the buffer is filled and flushed (lines 65-72).
bufIO_writeFill(cap, st, sb) ==
  LET n  == Min(avail(cap, st.b), Len(st.p))
      fl == bufIO_flush([st.b EXCEPT !.data = @ \o Take(st.p, n)], sb, st.k)
  IN [st EXCEPT !.b     = fl.b,
                !.fw    = @ + fl.flushed,
                !.nn    = @ + n,
                !.out   = @ \o fl.out,
                !.p     = Drop(@, n),
                !.k     = fl.k,
                !.short = @ \/ fl.err # "nil",
                !.paths = @ \cup {"fill"}]

RECURSIVE bufIO_writeLoop(_, _, _)
bufIO_writeLoop(cap, st, sb) ==
  IF st.hang \/ ~(Len(st.p) > avail(cap, st.b) /\ st.b.err = "nil")
    THEN st
  ELSE IF buffered(st.b) = 0
    THEN bufIO_writeLoop(cap, bufIO_writeBypass(st, sb), sb)
    ELSE bufIO_writeLoop(cap, bufIO_writeFill(cap, st, sb), sb)

\* bufIO_writeCopy with b.n += n forgotten.
bufIO_writeCopy_forgetsN(st) ==
  IF st.b.err # "nil"
    THEN [b |-> st.b, nn |-> st.nn, fw |-> st.fw, err |-> st.b.err, out |-> st.out,
          paths |-> st.paths, k |-> st.k, short |-> st.short, hang |-> FALSE]
    ELSE [b |-> st.b, nn |-> st.nn + Len(st.p),
          fw |-> st.fw, err |-> "nil", out |-> st.out,
          paths |-> IF Len(st.p) > 0 THEN st.paths \cup {"copy"} ELSE st.paths,
          k |-> st.k, short |-> st.short, hang |-> FALSE]

\* bufIO_writeCopy returning nil where it is to return b.err.
bufIO_writeCopy_swallowsErr(st) ==
  IF st.b.err # "nil"
    THEN [b |-> st.b, nn |-> st.nn, fw |-> st.fw, err |-> "nil", out |-> st.out,
          paths |-> st.paths, k |-> st.k, short |-> st.short, hang |-> FALSE]
    ELSE [b |-> [st.b EXCEPT !.data = @ \o st.p], nn |-> st.nn + Len(st.p),
          fw |-> st.fw, err |-> "nil", out |-> st.out,
          paths |-> IF Len(st.p) > 0 THEN st.paths \cup {"copy"} ELSE st.paths,
          k |-> st.k, short |-> st.short, hang |-> FALSE]

\* What follows the loop (lines 74-80): the sticky error is returned, or the
\* rest of p is copied into the buffer.
bufIO_writeCopy(st) ==
  IF st.b.err # "nil"
    THEN [b |-> st.b, nn |-> st.nn, fw |-> st.fw, err |-> st.b.err, out |-> st.out,
          paths |-> st.paths, k |-> st.k, short |-> st.short, hang |-> FALSE]
    ELSE [b |-> [st.b EXCEPT !.data = @ \o st.p], nn |-> st.nn + Len(st.p),
          fw |-> st.fw, err |-> "nil", out |-> st.out,
          paths |-> IF Len(st.p) > 0 THEN st.paths \cup {"copy"} ELSE st.paths,
          k |-> st.k, short |-> st.short, hang |-> FALSE]

\* bufIO.write: [b, nn, fw, err, out, paths, k, short, hang]; hang says the
\* call never returns.
bufIO_write(cap, b, p, sb) ==
  LET st == bufIO_writeLoop(cap,
              [b |-> b, p |-> p, nn |-> 0, fw |-> 0, out |-> <<>>, k |-> 0,
               paths |-> {}, short |-> FALSE, hang |-> FALSE], sb)
  IN IF st.hang
       THEN [b |-> st.b, nn |-> st.nn, fw |-> st.fw, err |-> "nil", out |-> st.out,
             paths |-> st.paths, k |-> st.k, short |-> st.short, hang |-> TRUE]
       ELSE bufIO_writeCopy(st)

\* ============================================================= SpecBufIO
\* bio: one bufIO of capacity bio.cap over a writer that behaves as bio.sb;
\* reset puts another writer in its place, and the writers feed one sink.
\*   sink    the bytes the writers have received, in order
\*   all     the bytes handed to write so far, in order
\*   next    the number of bytes handed out so far
\*   last    the last operation, what it returned and the calls it made to
\*           the writer
\*   short   a call to the writer has taken fewer bytes than offered or
\*           returned an error
\*   faulty  the writer has at some time been other than a writer that
\*           accepts everything
\*   paths   the paths of write taken so far
\*   acc     the sum of the counts of bytes written that write has returned
\*   fwd     the sum of the counts of bytes forwarded that write and flush
\*           have returned

BufIOInit ==
  /\ RotIdle
  /\ RingIdle
  /\ BkIdle
  /\ ConfIdle
  /\ \E cap \in 0..MaxCap, sb \in errorWriterTests :
    bio = [cap |-> cap, b |-> newBufIO(1), sb |-> sb, sink |-> <<>>, all |-> <<>>,
           next |-> 0, faulty |-> (sb # GoodSink), paths |-> {}, short |-> FALSE,
           last |-> [op |-> "new", nn |-> 0, fw |-> 0, err |-> "nil", len |-> 0,
                     calls |-> 0],
           hang |-> FALSE, acc |-> 0, fwd |-> 0]

BufIOWrite ==
  \E len \in 0..MaxLen :
    /\ UNCHANGED <<rotVars, ringVars, bkp, conf>>
    /\ ~bio.hang
    /\ bio.next + len <= MaxTotal
    /\ LET p == Payload(bio.next, len)
           r == bufIO_write(bio.cap, bio.b, p, bio.sb)
       IN bio' = [bio EXCEPT !.b = r.b, !.sink = @ \o r.out, !.all = @ \o p,
                             !.next = @ + len, !.paths = @ \cup r.paths,
                             !.hang = r.hang, !.short = @ \/ r.short,
                             !.acc = @ + r.nn, !.fwd = @ + r.fw,
                             !.last = [op |-> "write", nn |-> r.nn, fw |-> r.fw,
                                       err |-> r.err, len |-> len, calls |-> r.k]]

BufIOFlush ==
  /\ UNCHANGED <<rotVars, ringVars, bkp, conf>>
  /\ ~bio.hang
  /\ LET r == bufIO_flush(bio.b, bio.sb, 0)
     IN bio' = [bio EXCEPT !.b = r.b, !.sink = @ \o r.out,
                           !.short = @ \/ (r.k > 0 /\ r.err # "nil"),
                           !.fwd = @ + r.flushed,
                           !.last = [op |-> "flush", nn |-> 0, fw |-> r.flushed,
                                     err |-> r.err, len |-> 0, calls |-> r.k]]

\* The writer starts to behave differently (a pipe closes, a disk fills up).
BufIOSinkChange ==
  \E sb \in errorWriterTests :
    /\ UNCHANGED <<rotVars, ringVars, bkp, conf>>
    /\ ~bio.hang
    /\ sb # bio.sb
    /\ bio' = [bio EXCEPT !.sb = sb, !.faulty = @ \/ (sb # GoodSink)]

\* The writers reset may put in place.
Writers == {1, 2}

\* reset(w) with another writer.
BufIOReset ==
  \E w \in Writers :
    /\ UNCHANGED <<rotVars, ringVars, bkp, conf>>
    /\ ~bio.hang
    /\ w # bio.b.w
    /\ bio' = [bio EXCEPT !.b = bufIO_reset(bio.b, w)]

BufIONext == BufIOWrite \/ BufIOFlush \/ BufIOSinkChange \/ BufIOReset

\* C3: over a writer that accepts every byte offered, whatever the capacity
\* (0 included), the writer has received after a flush exactly the bytes handed
\* to write, in the order they were handed over; before the flush the bytes
\* received followed by the bytes buffered are those bytes.
C3_FlushDeliversConcatenation ==
  ~bio.faulty =>
    /\ bio.sink \o bio.b.data = bio.all
    /\ bio.last.op = "flush" => bio.sink = bio.all

\* C3 witness: a flush has returned over a good writer after all three paths of
\* write (plain copy, fill-then-flush, large-write bypass) have been taken.
C3_Witness ==
  /\ ~bio.faulty
  /\ bio.last.op = "flush"
  /\ bio.paths = {"copy", "fill", "bypass"}
  /\ Len(bio.sink) >= 4

\* --------------------------------------------------------------- Backups
\* A Backup is [ts, fp]: ts the Unix seconds of the backup's time, fp its path.
\* A path is named by the millisecond stamp its file name carries
\* (backupTimeFmt has millisecond resolution); MsPerSec stamps share a second.
tsOf(stamp) == stamp \div MsPerSec

Backup(stamp) == [ts |-> tsOf(stamp), fp |-> stamp]

\* Less with the comparison turned round.
Less_descending(b, i, j) == b[i + 1].ts > b[j + 1].ts

\* Backups.Less, on the 0-based indices container/heap uses.
Less(b, i, j) == b[i + 1].ts < b[j + 1].ts

\* Backups.Swap
Swap(b, i, j) ==
  IF i >= 0 /\ j >= 0
    THEN [b EXCEPT ![i + 1] = b[j + 1], ![j + 1] = b[i + 1]]
    ELSE b

\* container/heap's up, driven by Less and Swap.
RECURSIVE heap_up(_, _)
heap_up(b, j) ==
  LET i == (j - 1) \div 2
  IN IF j <= 0 \/ i = j \/ ~Less(b, j, i)
       THEN b
       ELSE heap_up(Swap(b, i, j), i)

\* container/heap's down over b[0:n], driven by Less and Swap.
RECURSIVE heap_down(_, _, _)
heap_down(b, i, n) ==
  LET j1 == 2 * i + 1
      j2 == j1 + 1
      j  == IF j2 < n /\ Less(b, j2, j1) THEN j2 ELSE j1
  IN IF j1 >= n
       THEN b
     ELSE IF ~Less(b, j, i)
       THEN b
     ELSE heap_down(Swap(b, i, j), j, n)

\* heap.Push(b, v): Backups.Push appends, then up.
heap_Push(b, v) == heap_up(Append(b, v), Len(b))

\* heap_Pop without the call of down.
heap_Pop_noDown(b) ==
  LET n == Len(b) - 1
      d == Swap(b, 0, n)
  IN IF Len(b) > 0
       THEN [b |-> Take(d, n), v |-> d[n + 1], some |-> TRUE]
       ELSE [b |-> b, v |-> [ts |-> 0, fp |-> 0], some |-> FALSE]

\* heap.Pop(b): swap the root with the last element, down, then Backups.Pop
\* takes the last element off; [b, v, some], some = FALSE when b was empty (v is
\* then nil).
heap_Pop(b) ==
  LET n == Len(b) - 1
      d == heap_down(Swap(b, 0, n), 0, n)
  IN IF Len(b) > 0
       THEN [b |-> Take(d, n), v |-> d[n + 1], some |-> TRUE]
       ELSE [b |-> b, v |-> Backup(0), some |-> FALSE]

\* The directory of the log file: exists says a file is at OutputPath, active
\* is the handle of this instance open on that file (0: none), bk the backup
\* files, each [stamp, h] with h the handle that wrote it (0: none of this
\* instance).
RemoveBk(bk, stamp) == {e \in bk : e.stamp # stamp}

\* os.Rename(fp, backupFP): the file at OutputPath takes the backup's name,
\* replacing a file of that name.
Rename(d, stamp) ==
  [exists |-> FALSE, active |-> 0,
   bk |-> RemoveBk(d.bk, stamp) \cup {[stamp |-> stamp, h |-> d.active]}]

\* The loop of Backups.list that prunes: while Len > max, pop and remove.
RECURSIVE listPrune(_, _, _, _)
listPrune(b, bk, max, pr) ==
  IF Len(b) > max
    THEN LET po == heap_Pop(b)
         IN listPrune(po.b, RemoveBk(bk, po.v.fp), max,
                      [victim |-> po.v, held |-> {b[i] : i \in 1..Len(b)},
                       removed |-> po.v.fp, n |-> pr.n + 1])
    ELSE [b |-> b, bk |-> bk, pr |-> pr]

\* The output file of the instance ("logro-test.log" in the tests), in UTC.
OutputPath == <<"logro", "-", "test", ".", "log">>

\* The time a stamp stands for, and the name makeBackupFP gives the backup made
\* at that time.
StampTime(stamp) == [sec |-> tsOf(stamp), ms |-> stamp % MsPerSec, off |-> 0]

BackupName(stamp) == makeBackupFP(OutputPath, FALSE, StampTime(stamp)).fp

\* The loop of Backups.list that scans: ReadDir returns the entries sorted by
\* name, that is the backups by ascending stamp; each whose name parses to a
\* time other than 0 is pushed (0 says the file is no backup, and a name of
\* second 0 parses to 0 too).
RECURSIVE listScan(_, _, _)
listScan(b, stamps, from) ==
  IF \A s \in stamps : s < from
    THEN b
    ELSE LET s == CHOOSE x \in stamps : x >= from /\ \A y \in stamps : y >= from => x <= y
             pe == getPrefixAndExt(OutputPath)
         IN listScan(IF parseTime(BackupName(s), pe.prefix, pe.ext) # 0
                       THEN heap_Push(b, Backup(s))
                       ELSE b,
                     stamps, s + 1)

NoPrune == [victim |-> Backup(0), held |-> {}, removed |-> 0, n |-> 0]

\* listBackups(outputPath, max) over a directory holding backups of the given
\* stamps.
listBackups(stamps, max) ==
  listPrune(listScan(<<>>, stamps, 0), {[stamp |-> s, h |-> 0] : s \in stamps},
            max, NoPrune)

\* The times at which the next open() may read the clock.
Times(t) == {t + 1}

\* open assigning r.f before the file has been created.
open_handleBeforeCreate(d, b, fs, cur, max, t, oc, pr0) ==
  LET renamed == d.exists /\ oc # "rename"
      d1  == IF renamed THEN Rename(d, t) ELSE d
      b1  == IF renamed THEN heap_Push(b, Backup(t)) ELSE b
      po  == heap_Pop(b1)
      cut == renamed /\ Len(b1) > max
      b2  == IF cut THEN po.b ELSE b1
      d2  == IF cut THEN [d1 EXCEPT !.bk = RemoveBk(@, po.v.fp)] ELSE d1
      pr  == IF cut THEN [victim |-> po.v, held |-> {b1[i] : i \in 1..Len(b1)},
                          removed |-> po.v.fp, n |-> pr0.n + 1]
                    ELSE pr0
      h   == Len(fs) + 1
  IN IF d.exists /\ oc = "rename"
       THEN [d |-> d, b |-> b, files |-> fs, f |-> cur, err |-> "rename", pr |-> pr0,
             made |-> FALSE]
     ELSE IF oc \in {"mkdir", "create"}
       THEN [d |-> d2, b |-> b2, files |-> fs, f |-> h, err |-> oc, pr |-> pr,
             made |-> FALSE]
     ELSE [d |-> [d2 EXCEPT !.exists = TRUE, !.active = h], b |-> b2,
           files |-> Append(fs, [data |-> <<>>, closes |-> 0]),
           f |-> h, err |-> "nil", pr |-> pr, made |-> TRUE]

\* Rotation.open at time t, where oc says which step fails ("ok": none).
\* on the directory d, the backups b, the handles fs and r.f = cur.
\* [d, b, files, f, err, pr, made]: the directory, the backups, the handles, r.f,
\* the error returned, the prune done (pr.n = 0: none) and whether a file was
\* created.
open(d, b, fs, cur, max, t, oc, pr0) ==
  LET renamed == d.exists /\ oc # "rename"
      d1  == IF renamed THEN Rename(d, t) ELSE d
      b1  == IF renamed THEN heap_Push(b, Backup(t)) ELSE b
      po  == heap_Pop(b1)
      cut == renamed /\ Len(b1) > max
      b2  == IF cut THEN po.b ELSE b1
      d2  == IF cut THEN [d1 EXCEPT !.bk = RemoveBk(@, po.v.fp)] ELSE d1
      pr  == IF cut THEN [victim |-> po.v, held |-> {b1[i] : i \in 1..Len(b1)},
                          removed |-> po.v.fp, n |-> pr0.n + 1]
                    ELSE pr0
      h   == Len(fs) + 1
  IN IF d.exists /\ oc = "rename"
       THEN [d |-> d, b |-> b, files |-> fs, f |-> cur, err |-> "rename", pr |-> pr0,
             made |-> FALSE]
     ELSE IF oc \in {"mkdir", "create"}
       THEN [d |-> d2, b |-> b2, files |-> fs, f |-> cur, err |-> oc, pr |-> pr,
             made |-> FALSE]
     ELSE [d |-> [d2 EXCEPT !.exists = TRUE, !.active = h], b |-> b2,
           files |-> Append(fs, [data |-> <<>>, closes |-> 0]),
           f |-> h, err |-> "nil", pr |-> pr, made |-> TRUE]

\* ================================================================== Spec
\* The Rotation instance (src/logro.go:650-902) and what it acts on.
\*   cfg          MaxSize, BufSize, PerSyncSize, MaxBackups after adjust
\*   isRunning    r.isRunning
\*   mu           the process holding r.mu (0: nobody)
\*   f            r.f, a handle: an index into files
\*   fileWritten  r.fileWritten
\*   dirty        r.dirty
\*   buf, bufNil  *r.buf, and whether r.buf is nil
\*   syncJobs     the jobs in the channel r.syncJobs, oldest first
\*   chClosed     close(r.syncJobs) has been called
\*   loop         the sync loop: its locals n and offset, whether loopCancel
\*                has been called, whether the goroutine has returned
\*   files        per handle, the bytes written through it and the number of
\*                Close calls made on it
\*   disk         the directory of the log file
\*   backups      *r.backups
\*   now          the time of the last open(), in milliseconds
\*   pc           where each process is in the call it makes
\*   arg          the payload of the Write a process is in
\*   ret          what the call a process is in has computed so far
\*   last         what the call that has just returned has returned, and to
\*                whom (NoRet when the last step was not a return)
\*   g            history: the bytes handed to Write (next) and the calls made
\*                so far; whether a sink write has failed, an open() has
\*                failed, two calls have overlapped, a payload longer than
\*                the buffer has been written, Sync or Close has been called;
\*                per handle the RetireFile jobs sent for it; the files
\*                created by rotation and the rotations attempted; the last
\*                backup pruned; the calls of fnc.FlushHint the sync loop has
\*                made, in order: the file, the offset, the length, the
\*                loop's count n when it was made and whether the job was
\*                a retirement; the bytes forwarded to the files so far
\*                (fwd) and how many of them had been when the last
\*                rotation was attempted (mark); the calls the sync loop
\*                has made for RetireFile jobs, in order (retireCalls); the
\*                bytes that were in the buffer at a r.buf.reset, with the
\*                file reset away from and the file reset to (carried); the
\*                bytes that had been handed to Write when the buffer
\*                recorded its sticky error (errAt, -1 before); whether
\*                an open() has renamed the output file to the name of a
\*                backup that was there (clash)

\* What the sync loop and Close leave alone, and what a call leaves alone
\* whatever it does.
instVars == <<isRunning, mu, f, fileWritten, dirty, buf, bufNil, disk, backups, now>>

Procs == {1, 2}

\* The configurations tried (developed mode takes the sizes as given): a
\* MaxSize the buffer size divides and one it does not, payloads of up to
\* MaxLen bytes being longer than the buffer; a PerSyncSize of one buffer, and
\* one of two buffers, which a file can reach MaxSize without reaching.
Configs ==
  { [MaxSize |-> 2 * MaxBufSize, BufSize |-> MaxBufSize,
     PerSyncSize |-> MaxBufSize, MaxBackups |-> 1],
    [MaxSize |-> 2 * MaxBufSize - 1, BufSize |-> MaxBufSize,
     PerSyncSize |-> MaxBufSize, MaxBackups |-> 1],
    [MaxSize |-> 2 * MaxBufSize - 1, BufSize |-> MaxBufSize,
     PerSyncSize |-> 2 * MaxBufSize, MaxBackups |-> 1] }

\* A Go panic ends the program.
crashed == \E p \in Procs : pc[p] = "panic"

\* A step of the program: it has not crashed.
RotStep == ~crashed /\ UNCHANGED <<bio, ringVars, bkp, conf>>

\* How the file behind handle h answers the writes of one bufIO call: a closed
\* file refuses; an open one takes everything, or fails at the first or at the
\* second write of the call, having taken none or half of the bytes (an
\* *os.File never takes fewer bytes than offered without an error).
FileSinks(h) ==
  IF files[h].closes > 0
    THEN {[ok |-> 0, num |-> 0, den |-> 1, err |-> "ErrClosed"]}
    ELSE {GoodSink} \cup
         [ok : {0, 1}, num : {0, 1}, den : {2}, err : {"EIO"}]

OpenOutcomes == {"ok", "rename", "mkdir", "create"}

FileWrite(fs, h, out) == [fs EXCEPT ![h].data = @ \o out]

\* (*os.File).Close
FileClose(fs, h) == [fs EXCEPT ![h].closes = Min(@ + 1, 2)]

\* A result: the call, the count and the error returned, the length of the
\* payload, the caller, whether the call found the instance closed, and how the
\* rotation it made ended ("none": it made none).
NoRet ==
  [op |-> "none", n |-> 0, err |-> "nil", len |-> 0, p |-> 0, closed |-> FALSE,
   rot |-> "none"]

Result(op, p, n, err, len) ==
  [op |-> op, n |-> n, err |-> err, len |-> len, p |-> p, closed |-> FALSE,
   rot |-> "none"]

\* ClosedResult with the length of the payload as the count returned.
ClosedResult_countsPayload(op, p, len) ==
  [op |-> op, n |-> len, err |-> "nil", len |-> len, p |-> p, closed |-> TRUE,
   rot |-> "none"]

\* What Write, Sync and a second Close return on a closed instance.
ClosedResult(op, p, len) ==
  [op |-> op, n |-> 0, err |-> "nil", len |-> len, p |-> p, closed |-> TRUE,
   rot |-> "none"]

\* The stamps of the backup files the directory may hold before New: one of
\* second 0 and PreStamps later ones.
PreStampSet == (MsPerSec - 1)..(MsPerSec + PreStamps - 1)

\* The time of the open() New makes: later than every such stamp.
FirstNow == MsPerSec + PreStamps

\* prepare and run: the state New returns in, for a directory that held the
\* backups pre and, if ex, a log file.
RotInit(c, pre, ex) ==
  LET ls == listBackups(pre, c.MaxBackups)
      t0 == FirstNow
      o  == open([exists |-> ex, active |-> 0, bk |-> ls.bk], ls.b, <<>>, 0,
                 c.MaxBackups, t0, "ok", ls.pr)
  IN /\ cfg = c
     /\ isRunning = 1
     /\ mu = 0
     /\ f = o.f
     /\ fileWritten = 0
     /\ dirty = 0
     /\ buf = newBufIO(o.f)
     /\ bufNil = FALSE
     /\ syncJobs = <<>>
     /\ chClosed = FALSE
     /\ loop = [n |-> 0, offset |-> 0, cancelled |-> FALSE, exited |-> FALSE]
     /\ files = o.files
     /\ disk = o.d
     /\ backups = o.b
     /\ now = t0
     /\ pc = [p \in Procs |-> "idle"]
     /\ arg = [p \in Procs |-> <<>>]
     /\ ret = [p \in Procs |-> NoRet]
     /\ last = NoRet
     /\ g = [next |-> 0, calls |-> 0, sinkFault |-> FALSE,
             openFail |-> FALSE, concurrent |-> FALSE, big |-> FALSE,
             synced |-> FALSE, closed |-> FALSE,
             retire |-> [h \in 1..MaxHandles |-> 0], rotated |-> 0,
             attempts |-> 0, prune |-> o.pr, hints |-> <<>>,
             fwd |-> 0, mark |-> 0, retireCalls |-> <<>>, carried |-> {},
             errAt |-> -1, clash |-> FALSE]

Init ==
  /\ BufIOIdle
  /\ RingIdle
  /\ BkIdle
  /\ ConfIdle
  /\ \E c \in Configs, ex \in BOOLEAN : RotInit(c, {}, ex)

\* Another process is inside a call.
Busy(p) == \E q \in Procs \ {p} : pc[q] # "idle"

\* The call of p returns r.
Return(p, r) ==
  /\ pc' = [pc EXCEPT ![p] = "idle"]
  /\ arg' = [arg EXCEPT ![p] = <<>>]
  /\ ret' = [ret EXCEPT ![p] = NoRet]
  /\ last' = r

\* The call of p goes on at l, having computed r.
Goto(p, l, r) ==
  /\ pc' = [pc EXCEPT ![p] = l]
  /\ ret' = [ret EXCEPT ![p] = r]
  /\ last' = NoRet
  /\ UNCHANGED arg

\* A nil dereference, or a send on a closed channel.
Panic(p) ==
  /\ pc' = [pc EXCEPT ![p] = "panic"]
  /\ last' = NoRet
  /\ UNCHANGED <<cfg, instVars, syncJobs, chClosed, loop, files, arg, ret, g>>

\* r.syncJobs <- job can proceed.
CanSend == Len(syncJobs) < ChanCap

\* ---- Rotation.Write
\* Lines 765-767: the isClosed check.
WriteBegin(p) ==
  \E len \in 0..MaxLen :
    /\ RotStep
    /\ pc[p] = "idle"
    /\ g.next + len <= MaxBytes
    /\ g.calls < MaxCalls
    /\ IF isRunning = 0
         THEN /\ Return(p, ClosedResult("Write", p, len))
              /\ g' = [g EXCEPT !.calls = @ + 1]
         ELSE /\ pc' = [pc EXCEPT ![p] = "w_lock"]
              /\ arg' = [arg EXCEPT ![p] = Payload(g.next, len)]
              /\ g' = [g EXCEPT !.next = @ + len, !.calls = @ + 1,
                                !.concurrent = @ \/ Busy(p),
                                !.big = @ \/ (len > cfg.BufSize)]
              /\ last' = NoRet
              /\ UNCHANGED ret
    /\ UNCHANGED <<cfg, instVars, syncJobs, chClosed, loop, files>>

\* WriteAfterFlushJob without line 789, which sets r.fileWritten to 0.
WriteAfterFlushJob_noReset(p, fw, r, g1) ==
  IF fw >= cfg.MaxSize
    THEN /\ fileWritten' = fw
         /\ mu' = p
         /\ Goto(p, "w_retire", r)
         /\ g' = [g1 EXCEPT !.attempts = @ + 1, !.mark = g1.fwd]
    ELSE /\ fileWritten' = fw
         /\ mu' = 0
         /\ Return(p, r)
         /\ g' = g1

\* WriteAfterFlushJob with > where the code has >=.
WriteAfterFlushJob_strict(p, fw, r, g1) ==
  IF fw > cfg.MaxSize
    THEN /\ fileWritten' = 0
         /\ mu' = p
         /\ Goto(p, "w_retire", r)
         /\ g' = [g1 EXCEPT !.attempts = @ + 1, !.mark = g1.fwd]
    ELSE /\ fileWritten' = fw
         /\ mu' = 0
         /\ Return(p, r)
         /\ g' = g1

\* Where Write goes after line 777 or 786: to the rotation of line 788, with
\* r.fileWritten set to 0 (line 789), or to its return.
WriteAfterFlushJob(p, fw, r, g1) ==
  IF fw >= cfg.MaxSize
    THEN /\ fileWritten' = 0
         /\ mu' = p
         /\ Goto(p, "w_retire", r)
         /\ g' = [g1 EXCEPT !.attempts = @ + 1, !.mark = g1.fwd]
    ELSE /\ fileWritten' = fw
         /\ mu' = 0
         /\ Return(p, r)
         /\ g' = g1

\* Lines 769-777: the lock, r.buf.write(p) and the two counters; then the
\* tests of lines 779 and 788.
WriteLocked(p) ==
  /\ RotStep
  /\ pc[p] = "w_lock"
  /\ mu = 0
  /\ IF bufNil
       THEN Panic(p)
       ELSE \E sb \in FileSinks(buf.w) :
              LET w  == bufIO_write(cfg.BufSize, buf, arg[p], sb)
                  r  == Result("Write", p, w.nn, w.err, Len(arg[p]))
                  g1 == [g EXCEPT !.sinkFault = @ \/ (w.err # "nil"),
                                  !.fwd = @ + Len(w.out),
                                  !.errAt = IF @ < 0 /\ w.b.err # "nil"
                                              THEN g.next ELSE @]
              IN /\ buf' = w.b
                 /\ files' = FileWrite(files, buf.w, w.out)
                 /\ IF w.err # "nil"
                      THEN /\ Return(p, r)
                           /\ g' = g1
                           /\ UNCHANGED <<mu, fileWritten, dirty>>
                    ELSE IF dirty + w.fw >= cfg.PerSyncSize
                      THEN /\ dirty' = dirty + w.fw
                           /\ fileWritten' = fileWritten + w.fw
                           /\ mu' = p
                           /\ Goto(p, "w_flush", r)
                           /\ g' = g1
                    ELSE /\ dirty' = dirty + w.fw
                         /\ WriteAfterFlushJob(p, fileWritten + w.fw, r, g1)
                 /\ UNCHANGED <<cfg, isRunning, f, bufNil, disk, backups, now,
                                syncJobs, chClosed, loop>>

\* Lines 780-786: the FlushRange job is sent and r.dirty set to 0.
WriteSendFlush(p) ==
  /\ RotStep
  /\ pc[p] = "w_flush"
  /\ IF chClosed
       THEN Panic(p)
       ELSE /\ CanSend
            /\ syncJobs' = Append(syncJobs, [f |-> f, size |-> dirty, isOld |-> FALSE])
            /\ dirty' = 0
            /\ WriteAfterFlushJob(p, fileWritten, ret[p], g)
            /\ UNCHANGED <<cfg, isRunning, f, buf, bufNil, disk, backups, now,
                           chClosed, loop, files>>

\* Lines 790-799: the RetireFile job is sent, then open() and, when it
\* succeeded, r.buf.reset(r.f).
WriteRotate(p) ==
  /\ RotStep
  /\ pc[p] = "w_retire"
  /\ IF chClosed
       THEN Panic(p)
       ELSE \E t \in Times(now), oc \in OpenOutcomes :
              LET o == open(disk, backups, files, f, cfg.MaxBackups, t, oc, g.prune)
              IN /\ CanSend
                 /\ oc = "rename" => disk.exists
                 /\ syncJobs' = Append(syncJobs, [f |-> f, size |-> 0, isOld |-> TRUE])
                 /\ disk' = o.d
                 /\ backups' = o.b
                 /\ files' = o.files
                 /\ f' = o.f
                 /\ now' = t
                 /\ buf' = IF o.err = "nil" THEN bufIO_reset(buf, o.f) ELSE buf
                 /\ mu' = 0
                 /\ Return(p, [ret[p] EXCEPT !.err = o.err,
                                              !.rot = IF o.err = "nil" THEN "ok"
                                                                       ELSE "failed"])
                 /\ g' = [g EXCEPT !.retire[f] = @ + 1,
                                   !.rotated = @ + (IF o.made THEN 1 ELSE 0),
                                   !.openFail = @ \/ (o.err # "nil"),
                                   !.prune = o.pr,
                                   !.carried = @ \cup
                                     (IF o.err # "nil" THEN {}
                                      ELSE {[b |-> buf.data[i], old |-> f, new |-> o.f] :
                                              i \in 1..Len(buf.data)})]
                 /\ UNCHANGED <<cfg, isRunning, fileWritten, dirty, bufNil, chClosed,
                                loop>>

\* ---- Rotation.Sync
\* Lines 808-810: the isClosed check.
SyncBegin(p) ==
  /\ RotStep
  /\ pc[p] = "idle"
  /\ g.calls < MaxCalls
  /\ IF isRunning = 0
       THEN Return(p, ClosedResult("Sync", p, 0))
       ELSE Goto(p, "s_lock", NoRet)
  /\ g' = [g EXCEPT !.calls = @ + 1, !.synced = TRUE,
                    !.concurrent = @ \/ (isRunning = 1 /\ Busy(p))]
  /\ UNCHANGED <<cfg, instVars, syncJobs, chClosed, loop, files>>

\* Lines 812-818: the lock and r.buf.flush().
SyncLocked(p) ==
  /\ RotStep
  /\ pc[p] = "s_lock"
  /\ mu = 0
  /\ IF bufNil
       THEN Panic(p)
       ELSE \E sb \in {s \in FileSinks(buf.w) : s.ok = 0} :
              LET fl == bufIO_flush(buf, sb, 0)
                  r  == Result("Sync", p, fl.flushed, fl.err, 0)
              IN /\ buf' = fl.b
                 /\ files' = FileWrite(files, buf.w, fl.out)
                 /\ g' = [g EXCEPT !.sinkFault = @ \/ (fl.err # "nil"),
                                   !.fwd = @ + Len(fl.out),
                                   !.errAt = IF @ < 0 /\ fl.b.err # "nil"
                                               THEN g.next ELSE @]
                 /\ IF fl.err # "nil"
                      THEN /\ Return(p, r)
                           /\ UNCHANGED mu
                      ELSE /\ Goto(p, "s_send", r)
                           /\ mu' = p
                 /\ UNCHANGED <<cfg, isRunning, f, fileWritten, dirty, bufNil, disk,
                                backups, now, syncJobs, chClosed, loop>>

\* SyncSend sending r.dirty, as Write does, for the bytes flushed.
SyncSend_sendsDirty(p) ==
  /\ RotStep
  /\ pc[p] = "s_send"
  /\ IF chClosed
       THEN Panic(p)
       ELSE /\ CanSend
            /\ syncJobs' = Append(syncJobs, [f |-> f, size |-> dirty, isOld |-> FALSE])
            /\ mu' = 0
            /\ Return(p, ret[p])
            /\ UNCHANGED <<cfg, isRunning, f, fileWritten, dirty, buf, bufNil, disk,
                           backups, now, chClosed, loop, files, g>>

\* Lines 820-825: the FlushRange job of the bytes flushed is sent.
SyncSend(p) ==
  /\ RotStep
  /\ pc[p] = "s_send"
  /\ IF chClosed
       THEN Panic(p)
       ELSE /\ CanSend
            /\ syncJobs' = Append(syncJobs, [f |-> f, size |-> ret[p].n, isOld |-> FALSE])
            /\ mu' = 0
            /\ Return(p, ret[p])
            /\ UNCHANGED <<cfg, isRunning, f, fileWritten, dirty, buf, bufNil, disk,
                           backups, now, chClosed, loop, files, g>>

\* ---- Rotation.Close
\* Lines 831-835: the compare-and-swap, then loopCancel() in stopLoop.
CloseBegin(p) ==
  /\ RotStep
  /\ pc[p] = "idle"
  /\ g.calls < MaxCalls
  /\ IF isRunning = 0
       THEN /\ Return(p, ClosedResult("Close", p, 0))
            /\ UNCHANGED <<isRunning, loop>>
            /\ g' = [g EXCEPT !.calls = @ + 1]
       ELSE /\ isRunning' = 0
            /\ loop' = [loop EXCEPT !.cancelled = TRUE]
            /\ Goto(p, "c_wait", NoRet)
            /\ g' = [g EXCEPT !.calls = @ + 1, !.closed = TRUE]
  /\ UNCHANGED <<cfg, mu, f, fileWritten, dirty, buf, bufNil, disk, backups, now,
                 syncJobs, chClosed, files>>

\* CloseStop without loopWg.Wait().
CloseStop_noWait(p) ==
  /\ RotStep
  /\ pc[p] = "c_wait"
  /\ chClosed' = TRUE
  /\ Goto(p, "c_lock", NoRet)
  /\ UNCHANGED <<cfg, instVars, syncJobs, loop, files, g>>

\* Lines 855 and 837: loopWg.Wait() returns once the sync loop has returned,
\* then close(r.syncJobs).
CloseStop(p) ==
  /\ RotStep
  /\ pc[p] = "c_wait"
  /\ loop.exited
  /\ chClosed' = TRUE
  /\ Goto(p, "c_lock", NoRet)
  /\ UNCHANGED <<cfg, instVars, syncJobs, loop, files, g>>

\* Lines 839-850: under the lock the counters are cleared, r.buf set to nil
\* and r.f closed.
CloseFinish(p) ==
  /\ RotStep
  /\ pc[p] = "c_lock"
  /\ mu = 0
  /\ fileWritten' = 0
  /\ dirty' = 0
  /\ bufNil' = TRUE
  /\ files' = FileClose(files, f)
  /\ Return(p, Result("Close", p, 0,
                       IF files[f].closes > 0 THEN "ErrClosed" ELSE "nil", 0))
  /\ UNCHANGED <<cfg, isRunning, mu, f, buf, disk, backups, now, syncJobs, chClosed,
                 loop, g>>

\* ---- Rotation.syncLoop
\* Lines 889-893: what the loop calls for a RetireFile job, in order.
RetireCalls(h, max) ==
  << [op |-> "FlushHint", f |-> h, off |-> 0, len |-> max],
     [op |-> "DropCache", f |-> h, off |-> 0, len |-> max],
     [op |-> "Close", f |-> h, off |-> 0, len |-> 0] >>

\* SyncLoopJob leaving the pending count where it was after a retirement.
SyncLoopJob_keepsPending ==
  /\ RotStep
  /\ ~loop.exited
  /\ Len(syncJobs) > 0
  /\ LET job == Head(syncJobs)
         n   == loop.n + job.size
     IN /\ syncJobs' = Tail(syncJobs)
        /\ IF ~job.isOld
             THEN /\ IF n >= cfg.PerSyncSize
                       THEN /\ g' = [g EXCEPT !.hints = Append(@,
                                       [f |-> job.f, off |-> loop.offset, len |-> n,
                                        n |-> n, isOld |-> FALSE])]
                            /\ loop' = [loop EXCEPT !.offset = @ + n, !.n = 0]
                       ELSE /\ loop' = [loop EXCEPT !.n = n]
                            /\ UNCHANGED g
                  /\ UNCHANGED files
             ELSE /\ g' = [g EXCEPT !.hints = Append(@,
                             [f |-> job.f, off |-> 0, len |-> cfg.MaxSize,
                              n |-> n, isOld |-> TRUE]),
                                    !.retireCalls = @ \o RetireCalls(job.f, cfg.MaxSize)]
                  /\ loop' = [loop EXCEPT !.offset = 0, !.n = n]
                  /\ files' = FileClose(files, job.f)
  /\ last' = NoRet
  /\ UNCHANGED <<cfg, instVars, chClosed, pc, arg, ret>>

\* SyncLoopJob leaving the offset where it was after a hint.
SyncLoopJob_keepsOffset ==
  /\ RotStep
  /\ ~loop.exited
  /\ Len(syncJobs) > 0
  /\ LET job == Head(syncJobs)
         n   == loop.n + job.size
     IN /\ syncJobs' = Tail(syncJobs)
        /\ IF ~job.isOld
             THEN /\ IF n >= cfg.PerSyncSize
                       THEN /\ g' = [g EXCEPT !.hints = Append(@,
                                       [f |-> job.f, off |-> loop.offset, len |-> n,
                                        n |-> n, isOld |-> FALSE])]
                            /\ loop' = [loop EXCEPT !.n = 0]
                       ELSE /\ loop' = [loop EXCEPT !.n = n]
                            /\ UNCHANGED g
                  /\ UNCHANGED files
             ELSE /\ g' = [g EXCEPT !.hints = Append(@,
                             [f |-> job.f, off |-> 0, len |-> cfg.MaxSize,
                              n |-> n, isOld |-> TRUE]),
                                    !.retireCalls = @ \o RetireCalls(job.f, cfg.MaxSize)]
                  /\ loop' = [loop EXCEPT !.offset = 0, !.n = 0]
                  /\ files' = FileClose(files, job.f)
  /\ last' = NoRet
  /\ UNCHANGED <<cfg, instVars, chClosed, pc, arg, ret>>

\* Lines 880-896: one job is received and handled.
SyncLoopJob ==
  /\ RotStep
  /\ ~loop.exited
  /\ Len(syncJobs) > 0
  /\ LET job == Head(syncJobs)
         n   == loop.n + job.size
     IN /\ syncJobs' = Tail(syncJobs)
        /\ IF ~job.isOld
             THEN /\ IF n >= cfg.PerSyncSize
                       THEN /\ g' = [g EXCEPT !.hints = Append(@,
                                       [f |-> job.f, off |-> loop.offset, len |-> n,
                                        n |-> n, isOld |-> FALSE])]
                            /\ loop' = [loop EXCEPT !.offset = @ + n, !.n = 0]
                       ELSE /\ loop' = [loop EXCEPT !.n = n]
                            /\ UNCHANGED g
                  /\ UNCHANGED files
             ELSE /\ g' = [g EXCEPT !.hints = Append(@,
                             [f |-> job.f, off |-> 0, len |-> cfg.MaxSize,
                              n |-> n, isOld |-> TRUE]),
                                    !.retireCalls = @ \o RetireCalls(job.f, cfg.MaxSize)]
                  /\ loop' = [loop EXCEPT !.offset = 0, !.n = 0]
                  /\ files' = FileClose(files, job.f)
  /\ last' = NoRet
  /\ UNCHANGED <<cfg, instVars, chClosed, pc, arg, ret>>

\* Lines 898-899: ctx.Done() is chosen and the goroutine returns.
SyncLoopExit ==
  /\ RotStep
  /\ ~loop.exited
  /\ loop.cancelled
  /\ loop' = [loop EXCEPT !.exited = TRUE]
  /\ last' = NoRet
  /\ UNCHANGED <<cfg, instVars, syncJobs, chClosed, files, pc, arg, ret, g>>

Write(p) == WriteBegin(p) \/ WriteLocked(p) \/ WriteSendFlush(p) \/ WriteRotate(p)

Sync(p) == SyncBegin(p) \/ SyncLocked(p) \/ SyncSend(p)

Close(p) == CloseBegin(p) \/ CloseStop(p) \/ CloseFinish(p)

\* ============================================================== SpecOpen
\* listBackups followed by any sequence of open() calls, at any clock readings
\* (the wall clock may step back) and with any step of open() failing.
\* Number of open() calls made after New in one behaviour of SpecOpen.
MaxOpens == 3

\* Largest MaxBackups tried by SpecOpen (1..MaxKeep).
MaxKeep == 3

\* The clock readings: none is of second 0.
OpenTimes == MsPerSec..(FirstNow + 2)

OpenConfigs ==
  { [MaxSize |-> 1, BufSize |-> 1, PerSyncSize |-> 1, MaxBackups |-> m] : m \in 1..MaxKeep }

OpenInit ==
  /\ BufIOIdle
  /\ RingIdle
  /\ BkIdle
  /\ ConfIdle
  /\ \E c \in OpenConfigs, pre \in SUBSET PreStampSet, ex \in BOOLEAN : RotInit(c, pre, ex)

\* One call of open().
OpenCall ==
  \E t \in OpenTimes, oc \in OpenOutcomes :
    LET o == open(disk, backups, files, f, cfg.MaxBackups, t, oc, g.prune)
    IN /\ UNCHANGED <<bio, ringVars, bkp, conf>>
       /\ g.attempts < MaxOpens
       /\ oc = "rename" => disk.exists
       /\ disk' = o.d
       /\ backups' = o.b
       /\ files' = o.files
       /\ f' = o.f
       /\ now' = t
       /\ last' = Result("open", 0, 0, o.err, 0)
       /\ g' = [g EXCEPT !.attempts = @ + 1,
                         !.rotated = @ + (IF o.made THEN 1 ELSE 0),
                         !.openFail = @ \/ (o.err # "nil"),
                         !.prune = o.pr,
                         !.clash = @ \/ (/\ disk.exists /\ oc # "rename"
                                         /\ \E x \in disk.bk : x.stamp = t)]
       /\ UNCHANGED <<cfg, isRunning, mu, fileWritten, dirty, buf, bufNil, syncJobs,
                      chClosed, loop, pc, arg, ret>>

\* ============================================================== SpecRing
\* The circular buffer (src/unnamed/part_005) between the producers and the
\* file-write loop of the Rotation that stages through it
\* (src/unnamed/part_004). The instance is running, its file stays below
\* MaxSize and takes every write.
\*   ring   the buffer: buf (size cells), isFull, cons, prod
\*   rs     the rest: cfg; the channels fileWriteJobs and flushJobs; the locals
\*          n and written of the file-write loop, whether it is about to send
\*          a flush job (send, of size fw) and whether it has panicked; the
\*          locals n and flushed of the flush loop; the file; where each
\*          producer is and the notification it is about to send; the result
\*          of the call that has just returned; history: the bytes handed to
\*          Write (next), the calls made, the bytes the buffer accepted (pub)
RingConfigs ==
  { [BufSize |-> MaxBufSize + 1, FileWriteSize |-> MaxBufSize, FlushSize |-> MaxBufSize] }

\* A step of the program: the file-write loop has not panicked.
RingStep == ~rs.panicked /\ UNCHANGED <<rotVars, bio, bkp, conf>>

\* newBuffer(size): the cells hold 0, which is no byte of a payload.
newBuffer(n) ==
  [buf |-> [i \in 1..n |-> 0], isFull |-> FALSE, cons |-> 0, prod |-> 0]

size(b) == Len(b.buf)

\* buffer.getAvailRead
getAvailRead(b) ==
  IF b.prod = b.cons
    THEN IF b.isFull THEN size(b) ELSE 0
  ELSE IF b.prod > b.cons
    THEN b.prod - b.cons
  ELSE size(b) - b.cons + b.prod

\* buffer.getAvailWrite
getAvailWrite(b) ==
  IF b.prod = b.cons
    THEN IF b.isFull THEN 0 ELSE size(b)
  ELSE IF b.prod < b.cons
    THEN b.cons - b.prod
  ELSE size(b) - b.prod + b.cons

isAvailWrite(b, n) == getAvailWrite(b) >= n

isAvailRead(b, n) == getAvailRead(b) >= n

\* copy(buf[at:], p)
copyAt(a, at, p) ==
  [i \in 1..Len(a) |-> IF i > at /\ i <= at + Len(p) THEN p[i - at] ELSE a[i]]

\* a[lo:hi]
slice(a, lo, hi) == [i \in 1..(hi - lo) |-> a[lo + i]]

\* buffer_Write without the wrap of prod at the end of buf.
buffer_Write_noWrap(b, p) ==
  LET n == Len(p)
      prodToEnd == size(b) - b.prod
      w == IF b.prod >= b.cons
             THEN IF prodToEnd >= n
                    THEN [buf |-> copyAt(b.buf, b.prod, p), prod |-> b.prod + n]
                    ELSE [buf |-> copyAt(copyAt(b.buf, b.prod, Take(p, prodToEnd)),
                                         0, Drop(p, prodToEnd)),
                          prod |-> n - prodToEnd]
             ELSE [buf |-> copyAt(b.buf, b.prod, p), prod |-> b.prod + n]
      prod == w.prod
  IN IF n = 0
       THEN [b |-> b, err |-> "nil"]
     ELSE IF ~isAvailWrite(b, n)
       THEN [b |-> b, err |-> "ErrNoAvailWrite"]
     ELSE [b |-> [buf |-> w.buf, prod |-> prod, cons |-> b.cons,
                  isFull |-> IF prod = b.cons THEN TRUE ELSE b.isFull],
           err |-> "nil"]

\* buffer.Write(p): [b, err].
buffer_Write(b, p) ==
  LET n == Len(p)
      prodToEnd == size(b) - b.prod
      w == IF b.prod >= b.cons
             THEN IF prodToEnd >= n
                    THEN [buf |-> copyAt(b.buf, b.prod, p), prod |-> b.prod + n]
                    ELSE [buf |-> copyAt(copyAt(b.buf, b.prod, Take(p, prodToEnd)),
                                         0, Drop(p, prodToEnd)),
                          prod |-> n - prodToEnd]
             ELSE [buf |-> copyAt(b.buf, b.prod, p), prod |-> b.prod + n]
      prod == IF w.prod = size(b) THEN 0 ELSE w.prod
  IN IF n = 0
       THEN [b |-> b, err |-> "nil"]
     ELSE IF ~isAvailWrite(b, n)
       THEN [b |-> b, err |-> "ErrNoAvailWrite"]
     ELSE [b |-> [buf |-> w.buf, prod |-> prod, cons |-> b.cons,
                  isFull |-> IF prod = b.cons THEN TRUE ELSE b.isFull],
           err |-> "nil"]

\* buffer.read(p) with len(p) = n: [b, p, err].
buffer_read(b, n) ==
  LET consToEnd == size(b) - b.cons
  IN IF n = 0
       THEN [b |-> b, p |-> <<>>, err |-> "nil"]
     ELSE IF ~isAvailRead(b, n)
       THEN [b |-> b, p |-> <<>>, err |-> "ErrNoAvailRead"]
     ELSE [b |-> [b EXCEPT !.cons = (b.cons + n) % size(b), !.isFull = FALSE],
           p |-> IF b.cons + n <= size(b)
                   THEN slice(b.buf, b.cons, b.cons + n)
                   ELSE slice(b.buf, b.cons, size(b)) \o slice(b.buf, 0, n - consToEnd),
           err |-> "nil"]

\* buffer.reset
buffer_reset(b) == [b EXCEPT !.cons = 0, !.prod = 0, !.isFull = FALSE]

\* buffer.readAll(p): [b, p, n], p the n bytes copied.
buffer_readAll(b) ==
  LET got == IF b.prod = b.cons
               THEN IF b.isFull THEN b.buf ELSE <<>>
             ELSE IF b.prod > b.cons
               THEN slice(b.buf, b.cons, b.prod)
             ELSE slice(b.buf, b.cons, size(b)) \o slice(b.buf, 0, b.prod)
  IN [b |-> buffer_reset(b), p |-> got, n |-> Len(got)]

\* (*os.File).WriteAt(p, off) on a file that takes every write.
WriteAt(data, off, p) ==
  [i \in 1..(IF off + Len(p) > Len(data) THEN off + Len(p) ELSE Len(data)) |->
     IF i > off /\ i <= off + Len(p) THEN p[i - off]
     ELSE IF i <= Len(data) THEN data[i]
     ELSE 0]

RingInit ==
  /\ RotIdle
  /\ BufIOIdle
  /\ BkIdle
  /\ ConfIdle
  /\ \E c \in RingConfigs :
    /\ ring = newBuffer(c.BufSize)
    /\ rs = [cfg |-> c, fileWriteJobs |-> <<>>, flushJobs |-> <<>>,
             n |-> 0, written |-> 0, send |-> FALSE, fw |-> 0, panicked |-> FALSE,
             fn |-> 0, flushed |-> 0, file |-> <<>>,
             pc |-> [p \in Procs |-> "idle"], job |-> [p \in Procs |-> 0],
             res |-> [p \in Procs |-> NoRet], last |-> NoRet,
             next |-> 0, calls |-> 0, pub |-> <<>>]

\* Rotation.Write of part_004, lines 96-105: r.buf.write(p), after which the
\* notification (0 when the buffer refused p) is still to be sent.
RingWriteBegin(p) ==
  \E len \in 0..MaxLen :
    LET w == buffer_Write(ring, Payload(rs.next, len))
    IN /\ RingStep
       /\ rs.pc[p] = "idle"
       /\ rs.next + len <= MaxBytes
       /\ rs.calls < MaxCalls
       /\ ring' = w.b
       /\ rs' = [rs EXCEPT !.pc[p] = "send",
                           !.job[p] = IF w.err # "nil" THEN 0 ELSE len,
                           !.res[p] = Result("Write", p, len, w.err, len),
                           !.last = NoRet,
                           !.next = @ + len, !.calls = @ + 1,
                           !.pub = IF w.err = "nil" THEN @ \o Payload(rs.next, len) ELSE @]

\* Rotation.Sync of part_004: the notification 0 is to be sent.
RingSyncBegin(p) ==
  /\ RingStep
  /\ rs.pc[p] = "idle"
  /\ rs.calls < MaxCalls
  /\ rs' = [rs EXCEPT !.pc[p] = "send", !.job[p] = 0,
                      !.res[p] = Result("Sync", p, 0, "nil", 0),
                      !.last = NoRet, !.calls = @ + 1]
  /\ UNCHANGED ring

\* r.fileWriteJobs <- job, and the return.
RingSend(p) ==
  /\ RingStep
  /\ rs.pc[p] = "send"
  /\ Len(rs.fileWriteJobs) < ChanCap
  /\ rs' = [rs EXCEPT !.fileWriteJobs = Append(@, rs.job[p]),
                      !.pc[p] = "idle", !.job[p] = 0, !.res[p] = NoRet,
                      !.last = rs.res[p]]
  /\ UNCHANGED ring

\* fileWriteLoop, lines 154-174, up to the WriteAt of fileWrite: a slice
\* p[:n] beyond the scratch array panics.
FileWriteLoopJob ==
  /\ RingStep
  /\ ~rs.send
  /\ Len(rs.fileWriteJobs) > 0
  /\ LET job == Head(rs.fileWriteJobs)
         n1  == rs.n + job
         rd  == buffer_read(ring, n1)
         ra  == buffer_readAll(ring)
         all == job = 0 \/ rd.err # "nil"
         p0  == IF all THEN ra.p ELSE rd.p
         rs1 == [rs EXCEPT !.fileWriteJobs = Tail(@), !.last = NoRet]
     IN IF job # 0 /\ n1 < rs.cfg.FileWriteSize
          THEN /\ rs' = [rs1 EXCEPT !.n = n1]
               /\ UNCHANGED ring
        ELSE IF job # 0 /\ n1 > rs.cfg.BufSize
          THEN /\ rs' = [rs1 EXCEPT !.n = n1, !.panicked = TRUE]
               /\ UNCHANGED ring
        ELSE /\ ring' = IF all THEN ra.b ELSE rd.b
             /\ rs' = [rs1 EXCEPT !.file = WriteAt(@, rs.written, p0),
                                  !.written = @ + Len(p0), !.n = 0,
                                  !.send = TRUE, !.fw = Len(p0)]

\* fileWrite, lines 195-199: r.flushJobs <- flushJob{f, fw, false}.
FileWriteLoopSend ==
  /\ RingStep
  /\ rs.send
  /\ Len(rs.flushJobs) < ChanCap
  /\ rs' = [rs EXCEPT !.flushJobs = Append(@, rs.fw), !.send = FALSE, !.fw = 0,
                      !.last = NoRet]
  /\ UNCHANGED ring

\* flushLoop, lines 221-228: one job is received.
FlushLoopJob ==
  /\ RingStep
  /\ Len(rs.flushJobs) > 0
  /\ LET n == rs.fn + Head(rs.flushJobs)
     IN rs' = IF n >= rs.cfg.FlushSize
                THEN [rs EXCEPT !.flushJobs = Tail(@), !.flushed = @ + n, !.fn = 0,
                                !.last = NoRet]
                ELSE [rs EXCEPT !.flushJobs = Tail(@), !.fn = n, !.last = NoRet]
  /\ UNCHANGED ring

RingNext ==
  \/ \E p \in Procs : RingWriteBegin(p) \/ RingSyncBegin(p) \/ RingSend(p)
  \/ FileWriteLoopJob
  \/ FileWriteLoopSend
  \/ FlushLoopJob

\* =========================================================== SpecBackups
\* listBackups, parseTime and makeBackupFP over a directory of named entries,
\* and the heap alone (src/backup.go:1-137).
\*   bkp  out: the name of the output file; dir: the entries of the
\*        directory, each [name, isDir]; listed: listBackups has been called,
\*        with max, on the directory before; b: the Backups; entered: the
\*        descriptors put into b, in order; popped: those heap.Pop has
\*        returned, in order, the last run of them being popped after the last
\*        of those was put in; last: the last operation and its result

\* The output files tried: without extension, with a "-" in its stem, with a
\* "." in its stem.
OutputNames == { <<"a">>, OutputPath, <<"a", ".", "b", ".", "log">> }

\* The times makeBackupFP is tried on: one second is beyond the year 9999, and
\* the offsets go up to MaxZone minutes and some seconds, both ways.
MakeTimes ==
  [sec : 0..(LastSec + 1), ms : FmtMillis,
   off : (-(MaxZone * SecPerMin + SecPerMin - 1))..(MaxZone * SecPerMin + SecPerMin - 1)]

\* The times of the backup files the directory may hold: every second in UTC,
\* two of them in a zone of one minute as well.
DirTimes ==
  [sec : 0..LastSec, ms : {0}, off : {0}] \cup
  [sec : {1, LastSec}, ms : {0}, off : {SecPerMin}]

\* The entries the directory may hold: files named by makeBackupFP, and what
\* makeBackups (src/unnamed/part_003:78-98) adds to them: a directory, files of
\* another prefix, without the extension, with a text that is no time; also a
\* directory named like a backup, a backup of another extension and the output
\* file itself.
Entries(out) ==
  LET pe == getPrefixAndExt(out)
      vt == time_Format([sec |-> 1, ms |-> 0, off |-> 0])
  IN { [name |-> makeBackupFP(out, t.off # 0, t).fp, isDir |-> FALSE] : t \in DirTimes }
     \cup
     { [name |-> <<"dir">>, isDir |-> TRUE],
       [name |-> pe.prefix \o vt \o pe.ext, isDir |-> TRUE],
       [name |-> <<"c">> \o pe.ext, isDir |-> FALSE],
       [name |-> <<"c", "-">> \o vt \o pe.ext, isDir |-> FALSE],
       [name |-> pe.prefix \o <<"c">>, isDir |-> FALSE],
       [name |-> pe.prefix \o <<"c">> \o pe.ext, isDir |-> FALSE],
       [name |-> pe.prefix \o vt \o <<".", "gz">>, isDir |-> FALSE],
       [name |-> out, isDir |-> FALSE] }

\* os.Remove(fp)
Remove(dir, fp) == {e \in dir : e.name # fp}

\* Backups_listScan without the test of IsDir.
RECURSIVE Backups_listScan_dirsToo(_, _, _, _)
Backups_listScan_dirsToo(b, ns, i, pe) ==
  IF i > Len(ns)
    THEN b
  ELSE LET ts == parseTime(ns[i].name, pe.prefix, pe.ext)
       IN Backups_listScan_dirsToo(
            IF ts # 0 THEN heap_Push(b, [ts |-> ts, fp |-> ns[i].name]) ELSE b,
            ns, i + 1, pe)

\* The loop of Backups.list that scans the entries ReadDir returned (lines
\* 78-86), from the i-th on.
RECURSIVE Backups_listScan(_, _, _, _)
Backups_listScan(b, ns, i, pe) ==
  IF i > Len(ns)
    THEN b
  ELSE IF ns[i].isDir
    THEN Backups_listScan(b, ns, i + 1, pe)
  ELSE LET ts == parseTime(ns[i].name, pe.prefix, pe.ext)
       IN Backups_listScan(IF ts # 0 THEN heap_Push(b, [ts |-> ts, fp |-> ns[i].name])
                                     ELSE b,
                           ns, i + 1, pe)

\* Backups_listPrune with >= where the code has >.
RECURSIVE Backups_listPrune_equal(_, _, _)
Backups_listPrune_equal(b, dir, max) ==
  IF Len(b) >= max /\ Len(b) > 0
    THEN LET po == heap_Pop(b)
         IN Backups_listPrune_equal(po.b, Remove(dir, po.v.fp), max)
    ELSE [b |-> b, dir |-> dir]

\* The loop of Backups.list that prunes (lines 88-91): [b, dir].
RECURSIVE Backups_listPrune(_, _, _)
Backups_listPrune(b, dir, max) ==
  IF Len(b) > max
    THEN LET po == heap_Pop(b)
         IN Backups_listPrune(po.b, Remove(dir, po.v.fp), max)
    ELSE [b |-> b, dir |-> dir]

\* Backups.list on a new Backups (listBackups, lines 56-64), ns being what
\* ReadDir returns for the directory dir: [b, dir].
Backups_list(ns, dir, outputPath, max) ==
  Backups_listPrune(Backups_listScan(<<>>, ns, 1, getPrefixAndExt(outputPath)), dir, max)

\* The orders in which the entries of a directory may be listed.
Orders(dir) ==
  {ns \in [1..Cardinality(dir) -> dir] : \A i, j \in 1..Cardinality(dir) : ns[i] = ns[j] => i = j}

BkInit ==
  /\ RotIdle
  /\ BufIOIdle
  /\ RingIdle
  /\ ConfIdle
  /\ \E out \in OutputNames :
       bkp = [out |-> out, dir |-> {}, listed |-> FALSE, max |-> 0, before |-> {},
             b |-> <<>>, entered |-> <<>>, popped |-> <<>>, since |-> 0,
             last |-> [op |-> "new"]]

BkFrame == UNCHANGED <<rotVars, bio, ringVars, conf>>

\* makeBackupFP of a time, and parseTime of the name it gives.
BkMake ==
  \E t \in MakeTimes, local \in BOOLEAN :
    LET m  == makeBackupFP(bkp.out, local, t)
        pe == getPrefixAndExt(bkp.out)
    IN /\ BkFrame
       /\ ~bkp.listed /\ bkp.dir = {} /\ bkp.entered = <<>>
       /\ bkp' = [bkp EXCEPT !.last = [op |-> "make", t |-> t, local |-> local,
                                      fp |-> m.fp, ts |-> m.ts,
                                      parsed |-> parseTime(m.fp, pe.prefix, pe.ext)]]

\* An entry appears in the directory.
BkCreate ==
  \E e \in Entries(bkp.out) :
    /\ BkFrame
    /\ ~bkp.listed /\ bkp.entered = <<>>
    /\ Cardinality(bkp.dir) < MaxDir
    /\ \A x \in bkp.dir : x.name # e.name
    /\ bkp' = [bkp EXCEPT !.dir = @ \cup {e}, !.last = [op |-> "create"]]

\* listBackups(outputPath, max).
BkList ==
  \E max \in 1..MaxKeep, ns \in Orders(bkp.dir) :
    LET r == Backups_list(ns, bkp.dir, bkp.out, max)
    IN /\ BkFrame
       /\ ~bkp.listed /\ bkp.entered = <<>>
       /\ bkp' = [bkp EXCEPT !.listed = TRUE, !.max = max, !.before = bkp.dir,
                            !.dir = r.dir, !.b = r.b, !.popped = <<>>, !.since = 0,
                            !.last = [op |-> "list"]]

\* heap.Push(b, Backup{ts, fp}).
HeapPush ==
  \E ts \in 0..MaxPush :
    LET v == [ts |-> ts, fp |-> <<ToString(Len(bkp.entered) + 1)>>]
    IN /\ BkFrame
       /\ ~bkp.listed /\ bkp.dir = {}
       /\ Len(bkp.entered) < MaxPush
       /\ bkp' = [bkp EXCEPT !.b = heap_Push(@, v), !.entered = Append(@, v),
                            !.since = Len(bkp.popped),
                            !.last = [op |-> "push"]]

\* heap.Pop(b).
HeapPop ==
  LET po == heap_Pop(bkp.b)
  IN /\ BkFrame
     /\ bkp' = [bkp EXCEPT !.b = po.b,
                          !.popped = IF po.some THEN Append(@, po.v) ELSE @,
                          !.last = [op |-> "pop", some |-> po.some, len |-> Len(bkp.b)]]

BkNext == BkMake \/ BkCreate \/ BkList \/ HeapPop

HeapNext == HeapPush \/ HeapPop

\* ============================================================ SpecConfig
\* Config.adjust and alignToPage (src/config.go:43-104) over raw
\* configurations, in int64 arithmetic of IntBits bits.
\*   conf  raw: the Config as the caller gives it; kb, mb: the unit variables
\*         (tests set them to 1); cfg: the Config, adjusted in place;
\*         adjusted: adjust has run

\* An int64 result: two's complement wrap-around.
Wrap(x) == ((x + 2^(IntBits - 1)) % 2^IntBits) - 2^(IntBits - 1)

Mul(a, b) == Wrap(a * b)

kb == 2^KbBits

mb == 2^MbBits

\* The defaults, set from kb and mb when the package is initialised (128 MB,
\* 256 KB, 1 MB and 128 MB, scaled down).
defaultBufSize == 2 * mb

defaultFileWriteSize == 2 * kb

defaultFlushSize == mb

defaultMaxSize == 2 * mb

defaultMaxBackups == 8

pageSize == 2^PageBits

\* alignToPage without the rounding up.
alignToPage_down(n) == n - (n % pageSize)

\* alignToPage(n): (n + pageSize - 1) &^ (pageSize - 1).
alignToPage(n) ==
  LET s == Wrap(n + pageSize - 1)
  IN s - (s % pageSize)

\* The literal 1024 of line 88 (scaled as kb is).
Lit1024 == 2^KbBits

\* Config.adjust with the units k and m: the Config afterwards.
adjust(c, k, m) ==
  LET maxSize == IF c.MaxSize <= 0 THEN defaultMaxSize ELSE Mul(c.MaxSize, m)
      keep    == IF c.MaxBackups <= 0 THEN defaultMaxBackups ELSE c.MaxBackups
      bufSize == IF c.BufSize <= 0 THEN defaultBufSize ELSE Mul(c.BufSize, m)
      fwSize  == IF c.FileWriteSize <= 0 THEN defaultFileWriteSize
                                         ELSE Mul(c.FileWriteSize, k)
      flSize  == IF c.FlushSize <= 0 THEN defaultFlushSize ELSE Mul(c.FlushSize, k)
      reset   == \/ Mul(bufSize, Lit1024) < Mul(2, fwSize)
                 \/ flSize < Mul(2, fwSize)
      flSize1 == IF reset THEN defaultFlushSize ELSE flSize
  IN [MaxSize       |-> IF c.Developed THEN maxSize ELSE alignToPage(maxSize),
      MaxBackups    |-> keep,
      BufSize       |-> IF reset THEN defaultBufSize ELSE bufSize,
      FileWriteSize |-> IF reset THEN defaultFileWriteSize ELSE fwSize,
      FlushSize     |-> IF c.Developed THEN flSize1 ELSE alignToPage(flSize1),
      Developed     |-> c.Developed]

\* The raw values tried for a size: none, the smallest ones, and one that
\* overflows when scaled to megabytes.
RawSizes == {-1, 0, 1, 2, 3, 2^(IntBits - 1 - MbBits)}

RawConfigs ==
  [MaxSize : RawSizes, MaxBackups : {0, 1}, BufSize : RawSizes,
   FileWriteSize : RawSizes, FlushSize : RawSizes, Developed : BOOLEAN]

\* The units: as the package sets them, or 1 as TestConfigDevelop sets them.
Units == {[kb |-> kb, mb |-> mb], [kb |-> 1, mb |-> 1]}

ConfInit ==
  /\ RotIdle
  /\ BufIOIdle
  /\ RingIdle
  /\ BkIdle
  /\ \E c \in RawConfigs, u \in Units :
       conf = [raw |-> c, kb |-> u.kb, mb |-> u.mb, cfg |-> c, adjusted |-> FALSE]

\* cfg.adjust(), as New calls it.
ConfAdjust ==
  /\ ~conf.adjusted
  /\ conf' = [conf EXCEPT !.cfg = adjust(conf.raw, conf.kb, conf.mb),
                          !.adjusted = TRUE]
  /\ UNCHANGED <<rotVars, bio, ringVars, bkp>>

ConfNext == ConfAdjust

\* ------------------------------------------------------- specifications
Next ==
  \/ \E p \in Procs : Write(p) \/ Sync(p) \/ Close(p)
  \/ SyncLoopJob
  \/ SyncLoopExit

\* The Rotation instance: producers, Sync, Close and the sync loop.
Spec == Init /\ [][Next]_vars

\* The Go scheduler runs a goroutine that can run: the select of the sync loop
\* takes ctx.Done() once it is ready, and a Close that can go on goes on.
\* Nothing forces a caller to make another call.
Progress ==
  /\ WF_vars(SyncLoopExit)
  /\ \A p \in Procs : WF_vars(CloseStop(p)) /\ WF_vars(CloseFinish(p))

\* The Rotation instance under a scheduler that lets every goroutine run.
SpecLive == Init /\ [][Next]_vars /\ Progress

\* The buffered writer alone, over every writer of errorWriterTests.
SpecBufIO == BufIOInit /\ [][BufIONext]_vars

\* The output file and its backups alone.
SpecOpen == OpenInit /\ [][OpenCall]_vars

\* The circular staging buffer and the loops behind it.
SpecRing == RingInit /\ [][RingNext]_vars

\* The backups of a directory: names, listBackups and what pops off the heap.
SpecBackups == BkInit /\ [][BkNext]_vars

\* The heap of backups alone, from an empty one.
SpecHeap == BkInit /\ [][HeapNext]_vars

SpecConfig == ConfInit /\ [][ConfNext]_vars

\* ================================================================ claims
\* Every process is between two calls.
Quiet == \A p \in Procs : pc[p] = "idle"

\* The errors a sink write and an open() can give.
SinkErrs == {"EIO", "ErrClosed", "ErrShortWrite"}

OpenErrs == {"rename", "mkdir", "create"}

\* The contents of the files behind the handles 1..h, in the order the files
\* were created.
RECURSIVE Concat(_, _)
Concat(fs, h) == IF h = 0 THEN <<>> ELSE Concat(fs, h - 1) \o fs[h].data

FilesData == Concat(files, Len(files))

Occurrences(s, b) == Cardinality({i \in 1..Len(s) : s[i] = b})

\* The files a RetireFile job has been sent for and that have been replaced.
Retired == {h \in 1..Len(files) : h # f /\ g.retire[h] > 0}

RetireJobs == Cardinality({<<h, i>> \in (1..MaxHandles) \X (1..MaxCalls) : i <= g.retire[h]})

\* ---- C1
\* C1 (as the spec states it): a Write is never made to wait for the sync loop:
\* whenever a Write is about to send a job on syncJobs, the send can proceed
\* without the sync loop taking a step, the channel being full included.
C1_WriteNeverWaitsForSyncLoop ==
  \A p \in Procs :
    (pc[p] \in {"w_flush", "w_retire"} /\ ~chClosed) => CanSend

\* ---- C2
\* C2 (as the spec states it): publishing a payload into the staging buffer
\* never fails: every Write returns a nil error, the buffer being too full to
\* take the payload included.
C2_PublishNeverFails ==
  rs.last.op = "Write" => rs.last.err = "nil"

\* ---- C4
\* C4: one producer at a time, no sink error, fewer bytes written than MaxSize
\* (so no rotation): when a Sync returns nil, the active file holds exactly the
\* payloads of the Writes made so far, concatenated in the order of the calls.
C4_SyncedFileHoldsPayloads ==
  ( /\ last.op = "Sync" /\ ~last.closed /\ last.err = "nil"
    /\ ~g.concurrent /\ ~g.sinkFault /\ ~g.closed
    /\ g.next < cfg.MaxSize )
  => files[f].data = Payload(0, g.next)

\* C4 witness: such a Sync has returned after Writes of more bytes than the
\* buffer holds, so that bytes reached the file from Write and from Sync.
C4_Witness ==
  /\ last.op = "Sync" /\ ~last.closed /\ last.err = "nil" /\ last.n > 0
  /\ ~g.concurrent /\ ~g.sinkFault /\ ~g.closed
  /\ g.next = cfg.MaxSize - 1 /\ g.next > cfg.BufSize
  /\ Len(files[f].data) = g.next

\* ---- C5
\* C5 (as the spec states it): no file has two RetireFile jobs, and the
\* RetireFile jobs sent are as many as the files rotation has created, open()
\* failing and producers running concurrently included.
C5_OneRetireJobPerRotation ==
  /\ \A h \in 1..MaxHandles : g.retire[h] <= 1
  /\ RetireJobs = g.rotated

\* ---- C6
\* C6: no sink error: every byte handed to Write is, exactly once, in a file,
\* in the buffer or in the payload of a Write that has not reached the buffer
\* yet, and in no other place; once a Sync has returned nil with no call in
\* progress every byte is in exactly one file, so the sizes of the active file
\* and of the files retired sum to the bytes accepted. This holds with two
\* producers writing concurrently across a rotation.
C6_NoByteLostOrDuplicated ==
  (~g.sinkFault /\ ~g.closed) =>
    LET pending == IF pc[1] = "w_lock" THEN arg[1] ELSE <<>>
        waiting == IF pc[2] = "w_lock" THEN arg[2] ELSE <<>>
        held    == FilesData \o buf.data \o pending \o waiting
    IN /\ Len(held) = g.next
       /\ \A b \in 1..g.next : Occurrences(held, b) = 1
       /\ (last.op = "Sync" /\ ~last.closed /\ last.err = "nil" /\ Quiet)
            => Len(FilesData) = g.next

\* C6 witness: two producers have written concurrently, a rotation has
\* succeeded in between, a Sync has returned and both the retired and the
\* active file hold bytes.
C6_Witness ==
  /\ ~g.sinkFault /\ ~g.closed /\ g.concurrent /\ g.rotated >= 1
  /\ last.op = "Sync" /\ ~last.closed /\ last.err = "nil" /\ Quiet
  /\ Len(files[f].data) > 0
  /\ \E h \in Retired : Len(files[h].data) > 0
  /\ Len(FilesData) = g.next

\* ---- C7
\* The case of C7: one producer at a time making only Writes, each of a payload
\* no longer than the buffer, no sink error and no failed open(), no call in
\* progress.
C7_Case ==
  /\ ~g.concurrent /\ ~g.big /\ ~g.synced /\ ~g.closed
  /\ ~g.sinkFault /\ ~g.openFail
  /\ Quiet

\* A backup file written by this instance is in the directory.
BackupProduced == \E e \in disk.bk : e.h # 0

\* The files, in the order of their creation, hold the bytes forwarded so far
\* in order: the active file holds the bytes forwarded since the last rotation
\* and nothing else.
ActiveHoldsTheRest == FilesData = Payload(0, g.next - Len(buf.data))

\* C7 (as the spec states it): in that case more than MaxSize bytes written
\* produce a backup, every retired file holds at most MaxSize bytes, and the
\* active file holds only the bytes forwarded after the last rotation.
C7_RetiredFileAtMostMaxSize ==
  C7_Case =>
    /\ g.next > cfg.MaxSize => BackupProduced
    /\ \A h \in Retired : Len(files[h].data) <= cfg.MaxSize
    /\ ActiveHoldsTheRest

\* C7 (amended): in that case more than MaxSize bytes written produce a backup
\* when BufSize divides MaxSize, and MaxSize + BufSize bytes do in any case;
\* every retired file holds fewer than MaxSize + BufSize bytes, and at most
\* MaxSize when BufSize divides MaxSize; the active file holds only the bytes
\* forwarded after the last rotation.
C7_RetiredFileBelowMaxSizePlusBufSize ==
  C7_Case =>
    /\ (cfg.MaxSize % cfg.BufSize = 0 /\ g.next > cfg.MaxSize) => BackupProduced
    /\ g.next >= cfg.MaxSize + cfg.BufSize => BackupProduced
    /\ \A h \in Retired :
         /\ Len(files[h].data) < cfg.MaxSize + cfg.BufSize
         /\ cfg.MaxSize % cfg.BufSize = 0 => Len(files[h].data) <= cfg.MaxSize
    /\ ActiveHoldsTheRest

\* C7 witness: in that case a file has been retired holding more than MaxSize
\* bytes, its backup is in the directory, and a byte written since is in the
\* buffer on its way to the new file.
C7_Witness ==
  /\ C7_Case
  /\ g.next > cfg.MaxSize
  /\ BackupProduced
  /\ \E h \in Retired : Len(files[h].data) > cfg.MaxSize
  /\ Len(buf.data) > 0 /\ buf.w = f

\* ---- C8
\* C8: after listBackups and after any sequence of open() calls, failed ones
\* included, the backups held are at most MaxBackups; the backup a prune took
\* was one held, none held had a smaller timestamp, and its file is the one
\* removed.
C8_BackupsBounded ==
  /\ Len(backups) <= cfg.MaxBackups
  /\ g.prune.n > 0 =>
       /\ g.prune.victim \in g.prune.held
       /\ \A x \in g.prune.held : g.prune.victim.ts <= x.ts
       /\ g.prune.removed = g.prune.victim.fp

\* C8 witness: listBackups has pruned, open() calls have succeeded and failed,
\* and the last one pruned among backups of three different seconds.
C8_Witness ==
  /\ last.op = "open" /\ last.err = "nil"
  /\ g.openFail
  /\ g.prune.n >= 3
  /\ Cardinality({x.ts : x \in g.prune.held}) >= 3
  /\ Len(backups) = cfg.MaxBackups

CloseCompleted == bufNil

\* What a call changes beside its own position and result: the fields of the
\* instance, the channel, the sync loop, the files and the directory.
ProgramState == <<cfg, instVars, syncJobs, chClosed, loop, files>>

\* C11: once Close has completed, a Write or a Sync that is called returns at
\* once, Write returning (0, nil) and Sync nil, and the call changes nothing:
\* no byte is buffered or forwarded, no counter changes, no job is sent on
\* syncJobs, and no file is created, renamed or closed.
C11_ClosedCallsAreNoOps ==
  [][\A p \in Procs :
       ( /\ CloseCompleted
         /\ pc[p] = "idle"
         /\ \/ pc'[p] \in {"w_lock", "s_lock"}
            \/ last'.p = p /\ last'.op \in {"Write", "Sync"} )
       => /\ pc'[p] = "idle"
          /\ last'.n = 0 /\ last'.err = "nil" /\ last'.closed
          /\ UNCHANGED ProgramState]_vars

\* C11 witness: a Write of a payload that is not empty has returned (0, nil)
\* after Close had completed on an instance whose file holds bytes.
C11_Witness ==
  /\ CloseCompleted
  /\ last.op = "Write" /\ last.closed /\ last.len > 0 /\ last.n = 0
  /\ Len(files[f].data) > 0
  /\ files[f].closes = 1

\* ---- C12
\* Process p takes the first step of a Close.
CloseCalled(p) ==
  /\ pc[p] = "idle"
  /\ \/ pc'[p] \in {"c_wait", "c_lock"}
     \/ last'.p = p /\ last'.op = "Close"

\* C12: the Close that finds the instance running moves isRunning from 1 to 0
\* and cancels the sync loop, and it returns only after the sync loop has
\* exited; a Close that finds isRunning at 0 returns nil at once and changes
\* nothing: it cancels nothing, closes no channel and closes no file. A Close
\* that is waiting for the sync loop while no other call is in progress
\* returns.
C12_CloseIdempotentAndTerminating ==
  /\ [][\A p \in Procs :
          /\ (CloseCalled(p) /\ isRunning = 1)
             => (isRunning' = 0 /\ loop'.cancelled /\ pc'[p] = "c_wait")
          /\ (CloseCalled(p) /\ isRunning = 0)
             => /\ pc'[p] = "idle"
                /\ last'.closed /\ last'.err = "nil"
                /\ UNCHANGED ProgramState
          /\ (last'.p = p /\ last'.op = "Close" /\ ~last'.closed)
             => (loop.exited /\ chClosed /\ isRunning = 0)]_vars
  /\ \A p \in Procs :
       (pc[p] = "c_wait" /\ \A q \in Procs \ {p} : pc[q] = "idle") ~> (pc[p] = "idle")

\* C12 witness: a second Close has returned nil after the first one had
\* returned nil, the sync loop having exited and the file being closed once.
C12_Witness ==
  /\ last.op = "Close" /\ last.closed /\ last.err = "nil"
  /\ CloseCompleted /\ loop.exited /\ chClosed
  /\ files[f].closes = 1
  /\ Quiet

\* ---- C13
\* What C13 says of a Close and of the calls after it, every write to a file
\* and every open() succeeding: the Close that found the instance running
\* returns nil, the sync loop has exited by then, and a Write that returns after
\* Close has completed returns 0.
C13_CloseReturnsClean ==
  (~g.openFail /\ ~g.sinkFault) =>
    /\ (last.op = "Close" /\ ~last.closed) => (last.err = "nil" /\ loop.exited)
    /\ (CloseCompleted /\ last.op = "Write") => last.n = 0

\* C13 (as the spec states it): Close may be called while a producer is in a
\* Write, whatever the interleaving: no call panics, the Close returns nil with
\* the sync loop exited, and a Write returning after it returns 0.
C13_CloseWhileWritingNeverPanics ==
  /\ ~crashed
  /\ C13_CloseReturnsClean

\* ---- C14
\* A write or a flush is called on the bufIO.
BufIOCall == BufIOWrite \/ BufIOFlush

\* C14 (as the spec states it): once a call to the writer has failed or taken
\* fewer bytes than offered, every later write and every later flush returns
\* an error and makes no call to the writer.
C14_FailedOrShortWriteIsSticky ==
  [][(bio.short /\ BufIOCall) => (bio'.last.err # "nil" /\ bio'.last.calls = 0)]_vars

\* C14 (amended): the error of the bufIO is set by a call to the writer that
\* returned an error and by a short call made by flush, and once set it is
\* sticky: it never changes, reset and a writer that works again included, and
\* every later write and flush returns that same error, accepts and forwards
\* nothing and makes no call to the writer. A call of write's large-write
\* path that takes fewer bytes than offered without an error sets no error.
C14_StickyErrorIsReturnedWithoutIO ==
  /\ [](bio.b.err # "nil" => bio.short)
  /\ [](bio.last.err # "nil" => bio.b.err = bio.last.err)
  /\ [][bio.b.err # "nil" => bio'.b.err = bio.b.err]_vars
  /\ [][(BufIOFlush /\ bio'.last.calls > 0 /\ bio'.last.fw < Len(bio.b.data))
          => bio'.b.err # "nil"]_vars
  /\ [][(bio.b.err # "nil" /\ BufIOCall)
          => /\ bio'.last.err = bio.b.err
             /\ bio'.last.calls = 0 /\ bio'.last.nn = 0 /\ bio'.last.fw = 0
             /\ bio'.sink = bio.sink
             /\ bio'.b = bio.b]_vars

\* C14 witness: a write of a payload that is not empty has returned the sticky
\* error without a call to the writer, after a reset and over a writer that
\* accepts every byte again.
C14_Witness ==
  /\ bio.b.err # "nil"
  /\ bio.b.w # 1
  /\ bio.sb = GoodSink
  /\ bio.last.op = "write" /\ bio.last.len > 0
  /\ bio.last.err = bio.b.err /\ bio.last.calls = 0 /\ bio.last.nn = 0
  /\ Len(bio.b.data) > 0

\* ---- C15
\* The texts that are a time in backupTimeFmt, and the Unix second each is.
StampTexts ==
  { <<ToString(w), ".", ToString(m), "Z">> : w \in FmtWalls, m \in FmtMillis } \cup
  { <<ToString(w), ".", ToString(m), sg, ToString(z)>> :
      w \in FmtWalls, m \in FmtMillis, sg \in {"+", "-"}, z \in FmtZones }

TextSecond(x) ==
  LET w == Atoi(x[1], FmtWalls)
      z == IF Len(x) = 5 THEN Atoi(x[5], FmtZones) * SecPerMin ELSE 0
  IN IF Len(x) = 5 /\ x[4] = "-" THEN w + z ELSE w - z

\* The texts x for which name is the stem of out, "-", x and the extension of
\* out.
NameTexts(name, out) ==
  LET ext  == Ext(out)
      stem == SubSeq(out, 1, Len(out) - Len(ext))
  IN {x \in StampTexts : name = stem \o <<"-">> \o x \o ext}

\* The entry is a regular file named like a backup of out.
IsBackupFile(e, out) == ~e.isDir /\ NameTexts(e.name, out) # {}

\* The Unix second in the name of such a file.
BackupSecond(e, out) == TextSecond(CHOOSE x \in NameTexts(e.name, out) : TRUE)

\* The backup files listBackups found in the directory: the files named like a
\* backup whose time is not Unix second 0, which parseTime keeps for a name
\* that is no backup.
Found == {e \in bkp.before : IsBackupFile(e, bkp.out) /\ BackupSecond(e, bkp.out) # 0}

\* Those of them with fewer than n newer ones.
Newest(n) ==
  {e \in Found :
     Cardinality({x \in Found : BackupSecond(x, bkp.out) > BackupSecond(e, bkp.out)}) < n}

\* The descriptors listBackups returned: those still in the set and those
\* popped since.
Returned == {bkp.b[i] : i \in 1..Len(bkp.b)} \cup {bkp.popped[i] : i \in 1..Len(bkp.popped)}

C16_ScanIgnoresOtherEntries ==
  bkp.listed =>
    /\ \A d \in Returned :
         \E e \in bkp.before :
           /\ e.name = d.fp
           /\ IsBackupFile(e, bkp.out)
           /\ d.ts = BackupSecond(e, bkp.out)
    /\ \A e \in bkp.before :
         ~IsBackupFile(e, bkp.out) =>
           /\ e \in bkp.dir
           /\ \A d \in Returned : d.fp # e.name

\* C16 witness: the directory listed held a directory named like a backup, a
\* file of another prefix with a time in its name, a file that is neither, and
\* one backup, which is the one descriptor returned.
C16_Witness ==
  /\ bkp.listed
  /\ Cardinality(bkp.before) = 4
  /\ Cardinality(bkp.dir) = 4
  /\ \E e \in bkp.before : e.isDir /\ NameTexts(e.name, bkp.out) # {}
  /\ \E e \in bkp.before : ~e.isDir /\ HasPrefix(e.name, <<"c", "-">>)
  /\ Cardinality({e \in bkp.before : ~IsBackupFile(e, bkp.out)}) = 3
  /\ Cardinality(Returned) = 1

\* ---- C17
\* The time makeBackupFP formats, and the wall-clock second it prints.
MadeTime == IF bkp.last.local THEN bkp.last.t ELSE UTC(bkp.last.t)

MadeWall == MadeTime.sec + MadeTime.off

\* C17 (as the spec states it): for every output name, either setting of local
\* and every time t, parseTime of the name makeBackupFP builds is t's Unix
\* second, which is the timestamp makeBackupFP returns.
C17_BackupNameRoundTrips ==
  bkp.last.op = "make" =>
    /\ bkp.last.ts = Unix(bkp.last.t)
    /\ bkp.last.parsed = Unix(bkp.last.t)

\* C17 (amended): the timestamp makeBackupFP returns is t's Unix second, and
\* parseTime of the name it builds is that second when the time printed (t in
\* UTC, or t in its own zone when local is set) has a year of four digits and a
\* zone offset of whole minutes. A year of another width parses to 0; an
\* offset with seconds parses to a second that is off by those seconds.
C17_RepresentableTimeRoundTrips ==
  bkp.last.op = "make" =>
    LET rest == MadeTime.off - Quo(MadeTime.off, SecPerMin) * SecPerMin
    IN /\ bkp.last.ts = Unix(bkp.last.t)
       /\ (MadeWall \in FmtWalls /\ rest = 0) => bkp.last.parsed = Unix(bkp.last.t)
       /\ MadeWall \notin FmtWalls => bkp.last.parsed = 0
       /\ MadeWall \in FmtWalls => bkp.last.parsed = Unix(bkp.last.t) + rest

\* C17 witness: a name made with local set, of a time with milliseconds in a
\* zone west of UTC, for an output file with a "-" in its stem, has parsed to
\* the second of that time.
C17_Witness ==
  /\ bkp.last.op = "make"
  /\ bkp.out = OutputPath
  /\ bkp.last.local /\ bkp.last.t.off = -SecPerMin /\ bkp.last.t.ms > 0
  /\ bkp.last.t.sec > 0
  /\ bkp.last.parsed = Unix(bkp.last.t)
  /\ bkp.last.ts = Unix(bkp.last.t)

\* ---- C18
\* C18: the Backups are a min-heap on the timestamp: the root is an oldest
\* descriptor; the descriptors popped after the last push come in non-decreasing
\* order of timestamp; every descriptor pushed is either in the set or has been
\* popped, once; and a pop on an empty set returns nothing and leaves it empty.
C18_HeapPopsOldestFirst ==
  /\ \A i \in 1..Len(bkp.b) : bkp.b[1].ts <= bkp.b[i].ts
  /\ \A i, j \in (bkp.since + 1)..Len(bkp.popped) :
       i < j => bkp.popped[i].ts <= bkp.popped[j].ts
  /\ Len(bkp.b) + Len(bkp.popped) = Len(bkp.entered)
  /\ \A k \in 1..Len(bkp.entered) :
       Occurrences(bkp.b, bkp.entered[k]) + Occurrences(bkp.popped, bkp.entered[k]) = 1
  /\ bkp.last.op = "pop" =>
       /\ bkp.last.some <=> bkp.last.len > 0
       /\ ~bkp.last.some => bkp.b = <<>>

\* C18 witness: MaxPush descriptors pushed newest first, two of them of one
\* second, have all been popped in one run, and one more pop has returned
\* nothing.
C18_Witness ==
  /\ Len(bkp.entered) = MaxPush
  /\ bkp.entered[1].ts > bkp.entered[2].ts
  /\ bkp.entered[2].ts > bkp.entered[3].ts
  /\ bkp.entered[3].ts = bkp.entered[4].ts
  /\ bkp.since = 0 /\ Len(bkp.popped) = MaxPush
  /\ bkp.last.op = "pop" /\ ~bkp.last.some

\* ---- C19
\* The hints issued on the file of handle h.
HintsOn(h) == SelectSeq(g.hints, LAMBDA x : x.f = h)

\* The first of the hints starts at offset 0 and each later one where the one
\* before it ended.
Tiles(hs) ==
  \A i \in 1..Len(hs) :
    hs[i].off = IF i = 1 THEN 0 ELSE hs[i - 1].off + hs[i - 1].len

\* Nothing is in progress: no call, no job waiting, the loop running.
Settled ==
  /\ \A p \in Procs : pc[p] = "idle"
  /\ syncJobs = <<>>
  /\ ~loop.exited /\ ~loop.cancelled

C19_AllHintsTile == \A h \in 1..MaxHandles : Tiles(HintsOn(h))

C19_AllHintsAtThreshold ==
  \A i \in 1..Len(g.hints) : g.hints[i].n >= cfg.PerSyncSize

C19_WrittenBytesAreHinted ==
  (Settled /\ ~g.sinkFault /\ ~g.openFail /\ g.next >= cfg.PerSyncSize)
    => g.hints # <<>>

C20_RingDeliversInOrder ==
  /\ Len(rs.file) <= Len(rs.pub)
  /\ rs.file = Take(rs.pub, Len(rs.file))

\* ---- C21
\* The units are those the package sets.
PackageUnits == conf.kb = kb /\ conf.mb = mb

\* x is a positive multiple of the page size.
PageMultiple(x) == x > 0 /\ x % pageSize = 0

\* C21: for every raw configuration with Developed = false, after adjust the
\* maximum file size, the buffer size and the per-sync (flush) size are
\* positive multiples of the page size, and the per-sync size is at least
\* twice the buffer size.
C21_AdjustedSizesAlignedAndInRatio ==
  (conf.adjusted /\ PackageUnits /\ ~conf.raw.Developed) =>
    /\ PageMultiple(conf.cfg.MaxSize)
    /\ PageMultiple(conf.cfg.BufSize)
    /\ PageMultiple(conf.cfg.FlushSize)
    /\ conf.cfg.FlushSize >= 2 * conf.cfg.BufSize

\* The parts of it: the ratio alone, and the alignment alone.
C21_RatioAlone ==
  (conf.adjusted /\ PackageUnits /\ ~conf.raw.Developed) =>
    conf.cfg.FlushSize >= 2 * conf.cfg.BufSize

C21_AlignmentAlone ==
  (conf.adjusted /\ PackageUnits /\ ~conf.raw.Developed) =>
    /\ PageMultiple(conf.cfg.MaxSize)
    /\ PageMultiple(conf.cfg.BufSize)
    /\ PageMultiple(conf.cfg.FlushSize)

\* ---- C22
\* C22: with Developed = true and the units set to 1, adjust leaves every
\* positive MaxSize, BufSize, FileWriteSize and FlushSize as given, whatever
\* the ratios between them.
C22_DevelopedKeepsPositiveSizes ==
  ( /\ conf.adjusted /\ conf.raw.Developed
    /\ conf.kb = 1 /\ conf.mb = 1
    /\ conf.raw.MaxSize > 0 /\ conf.raw.BufSize > 0
    /\ conf.raw.FileWriteSize > 0 /\ conf.raw.FlushSize > 0 )
  => /\ conf.cfg.MaxSize = conf.raw.MaxSize
     /\ conf.cfg.BufSize = conf.raw.BufSize
     /\ conf.cfg.FileWriteSize = conf.raw.FileWriteSize
     /\ conf.cfg.FlushSize = conf.raw.FlushSize

\* ---- C23
\* C23: after a rotation attempt that failed, the instance keeps the active
\* file: no RetireFile job has been sent for its handle; as long as Close has
\* not been called the active handle is not closed; and no write to it is
\* refused because it is closed.
C23_FailedRotationKeepsActiveFile ==
  /\ (last.op = "Write" /\ last.rot = "failed") =>
       /\ g.retire[f] = 0
       /\ \A i \in 1..Len(syncJobs) : ~(syncJobs[i].isOld /\ syncJobs[i].f = f)
  /\ ~g.closed => files[f].closes = 0
  /\ (last.op \in {"Write", "Sync"} /\ last.err = "ErrClosed") => g.closed

\* The parts of it, one by one.
C23_NoRetireJobAfterFailure ==
  (last.op = "Write" /\ last.rot = "failed") =>
    /\ g.retire[f] = 0
    /\ \A i \in 1..Len(syncJobs) : ~(syncJobs[i].isOld /\ syncJobs[i].f = f)

C23_ActiveFileStaysOpen == ~g.closed => files[f].closes = 0

C23_LaterWritesReachTheFile ==
  (last.op \in {"Write", "Sync"} /\ last.err = "ErrClosed") => g.closed

\* ---- C24
\* A job is enqueued in this step: the job.
Enqueued == Len(syncJobs') = Len(syncJobs) + 1

NewJob == syncJobs'[Len(syncJobs')]

\* C24: once a RetireFile job has been enqueued for a file, no FlushRange job
\* is enqueued for it, by Write or by Sync, and so the sync loop issues no
\* flush hint for a FlushRange job on a handle it has closed; in every
\* interleaving, also when open() fails.
C24_RetireFileComesLast ==
  /\ [][(Enqueued /\ ~NewJob.isOld) => g.retire[NewJob.f] = 0]_vars
  /\ [](\A i, j \in 1..Len(g.hints) :
          (i < j /\ g.hints[i].isOld /\ ~g.hints[j].isOld)
            => g.hints[i].f # g.hints[j].f)

\* ---- C25
\* C25: r.fileWritten is 0 when the rotation is attempted, and an attempt,
\* whether the one before it succeeded or failed, is made only when at least
\* MaxSize bytes have been forwarded to the files since the one before it (since
\* New for the first): there is at most one attempt per MaxSize bytes
\* forwarded.
C25_OneAttemptPerMaxSize ==
  /\ [][g'.attempts # g.attempts =>
          /\ g'.attempts = g.attempts + 1
          /\ fileWritten' = 0
          /\ Len(Concat(files', Len(files'))) >= g.mark + cfg.MaxSize]_vars
  /\ [](\A p \in Procs : pc[p] = "w_retire" => fileWritten = 0)
  /\ [](g.fwd = Len(FilesData) /\ g.mark <= g.fwd)
  /\ [](g.attempts * cfg.MaxSize <= Len(FilesData))

\* C25 witness: a rotation has failed and, MaxSize more bytes having been
\* forwarded to the same file, a second one is being attempted.
C25_Witness ==
  /\ g.openFail /\ g.attempts = 2 /\ g.rotated = 0
  /\ \E p \in Procs : pc[p] = "w_retire"
  /\ Len(FilesData) = 2 * cfg.MaxSize

\* ---- C26
\* C26: a call of open() that returns nil has replaced the current handle by
\* the handle of a file it has just created, which is open and empty; a call
\* that returns an error, be it of the rename, of the directory creation or of
\* the file creation, has left the current handle the one it was, and has
\* created no file.
C26_OpenReplacesHandleOnlyOnSuccess ==
  [][last'.op = "open" =>
       IF last'.err = "nil"
         THEN /\ Len(files') = Len(files) + 1
              /\ f' = Len(files') /\ f' # f
              /\ files'[f'] = [data |-> <<>>, closes |-> 0]
              /\ disk'.exists /\ disk'.active = f'
         ELSE /\ last'.err \in {"rename", "mkdir", "create"}
              /\ f' = f
              /\ files' = files]_vars

\* C26 witness: after a rotation that succeeded, an open() has renamed the
\* output file and then failed to create the new one: the handle is still that
\* of the file renamed.
C26_Witness ==
  /\ last.op = "open" /\ last.err = "create"
  /\ g.rotated = 1 /\ g.attempts = 2
  /\ f = 2 /\ ~disk.exists

\* ---- C27
\* The RetireFile jobs the sync loop has received so far.
RetireJobsDone == RetireJobs - Len(SelectSeq(syncJobs, LAMBDA j : j.isOld))

\* C27: for every RetireFile job it has received the sync loop has issued, in
\* this order and once each, a flush hint over [0, MaxSize), a page-cache drop
\* over [0, MaxSize) and the close of the job's handle, which is closed from
\* then on; the step that handles the job leaves the loop's offset and
\* pending byte count 0, and the next flush hint, on whatever file, starts
\* at offset 0.
C27_RetireFileHintDropClose ==
  /\ [](/\ Len(g.retireCalls) = 3 * RetireJobsDone
        /\ \A k \in 0..(RetireJobsDone - 1) :
             LET h == g.retireCalls[3 * k + 1].f
             IN /\ SubSeq(g.retireCalls, 3 * k + 1, 3 * k + 3)
                     = << [op |-> "FlushHint", f |-> h, off |-> 0, len |-> cfg.MaxSize],
                          [op |-> "DropCache", f |-> h, off |-> 0, len |-> cfg.MaxSize],
                          [op |-> "Close", f |-> h, off |-> 0, len |-> 0] >>
                /\ files[h].closes > 0)
  /\ [][(syncJobs # <<>> /\ syncJobs' = Tail(syncJobs) /\ Head(syncJobs).isOld)
          => /\ loop'.offset = 0 /\ loop'.n = 0
             /\ Len(g'.retireCalls) = Len(g.retireCalls) + 3
             /\ g'.retireCalls[Len(g.retireCalls) + 1].f = Head(syncJobs).f]_vars
  /\ [](\A i \in 2..Len(g.hints) : g.hints[i - 1].isOld => g.hints[i].off = 0)

\* C27 witness: the loop had bytes pending, those of a Sync, when it received
\* the RetireFile job of the file: it has hinted, dropped and closed the file,
\* and its offset and pending count are 0.
C27_Witness ==
  /\ Len(g.retireCalls) = 3
  /\ g.hints # <<>>
  /\ LET h == g.hints[Len(g.hints)]
     IN /\ h.isOld /\ h.n > 0
        /\ g.retireCalls[3] = [op |-> "Close", f |-> h.f, off |-> 0, len |-> 0]
        /\ files[h.f].closes = 1
  /\ loop.offset = 0 /\ loop.n = 0

\* ---- C28
\* No Write, Sync or Close call is in progress and Close has not been called.
AtRest == (\A p \in Procs : pc[p] = "idle") /\ ~g.closed

\* C28: whenever no call is in progress, r.fileWritten is the number of bytes
\* forwarded to the active file since it was opened, those forwarded by the
\* flush of Sync and by a Write that has returned an error included.
C28_FileWrittenCountsForwardedBytes ==
  AtRest => fileWritten = Len(files[f].data)

\* C28, Sync alone: the same while no sink write and no open() has failed.
C28_SyncBytesCounted ==
  (AtRest /\ ~g.sinkFault /\ ~g.openFail) => fileWritten = Len(files[f].data)

\* C28, failed writes alone: the same while Sync has not been called and no
\* open() has failed.
C28_FailedWriteBytesCounted ==
  (AtRest /\ ~g.synced /\ ~g.openFail) => fileWritten = Len(files[f].data)

\* What the code keeps: without a call of Sync, a failed sink write or a
\* failed open(), r.fileWritten is the number of bytes forwarded to the active
\* file, and it is never more than that number.
C28_FileWrittenWithoutSyncOrFault ==
  /\ (AtRest /\ ~g.synced /\ ~g.sinkFault /\ ~g.openFail)
       => fileWritten = Len(files[f].data)
  /\ (~g.closed /\ mu = 0) => fileWritten <= Len(files[f].data)

\* ---- C29
\* C29: the size of every FlushRange{f, size} job counts only bytes forwarded
\* to f, and what the sync loop has hinted on a file between two RetireFile
\* jobs, its flushed offset and pending bytes, is never more than the bytes
\* forwarded to that file.
C29_DirtyCountsOwnFileOnly ==
  /\ \A i \in 1..Len(syncJobs) :
       ~syncJobs[i].isOld => syncJobs[i].size <= Len(files[syncJobs[i].f].data)
  /\ \A i \in 1..Len(g.hints) :
       ~g.hints[i].isOld
         => g.hints[i].off + g.hints[i].len <= Len(files[g.hints[i].f].data)
  /\ (mu = 0 /\ ~g.closed) => dirty <= Len(files[f].data)

\* What the code keeps: r.dirty counts bytes forwarded by Write to the active
\* file and to the files before it, so a FlushRange job is never larger than
\* the bytes forwarded to all the files so far.
C29_DirtyCountsForwardedBytes ==
  /\ \A i \in 1..Len(syncJobs) : syncJobs[i].size <= g.fwd
  /\ dirty <= g.fwd

\* ---- C30
\* C30: the flush of a Sync call that meets no sink error forwards the whole
\* buffer to the active file and leaves the buffer empty; the call then
\* enqueues one FlushRange job, of the active file and of exactly the bytes
\* that flush has forwarded, as its only job, and returns nil. When the flush
\* fails, the call returns the error at once and enqueues nothing.
C30_SyncFlushesAndSendsOneJob ==
  /\ [][\A p \in Procs :
          (pc[p] = "s_lock" /\ pc'[p] \notin {"s_lock", "panic"})
            => /\ syncJobs' = syncJobs
               /\ f' = f
               /\ IF pc'[p] = "s_send"
                    THEN /\ buf.err = "nil"
                         /\ buf'.data = <<>>
                         /\ files'[f].data = files[f].data \o buf.data
                         /\ ret'[p].n = Len(buf.data)
                         /\ ret'[p].err = "nil"
                         /\ mu' = p
                    ELSE /\ pc'[p] = "idle"
                         /\ last'.op = "Sync" /\ last'.p = p
                         /\ last'.err # "nil"
                         /\ Len(files'[f].data) = Len(files[f].data) + last'.n
                         /\ last'.n < Len(buf.data) \/ buf.err # "nil"]_vars
  /\ [][\A p \in Procs :
          (pc[p] = "s_send" /\ pc'[p] \notin {"s_send", "panic"})
            => /\ pc'[p] = "idle"
               /\ last' = ret[p]
               /\ syncJobs' = Append(syncJobs,
                                     [f |-> f, size |-> ret[p].n, isOld |-> FALSE])
               /\ buf' = buf /\ buf.data = <<>>
               /\ files' = files]_vars
  /\ [](\A p \in Procs : pc[p] = "s_send" => mu = p)
  /\ []((last.op = "Sync" /\ ~last.closed)
          => IF last.err = "nil"
               THEN /\ syncJobs # <<>>
                    /\ syncJobs[Len(syncJobs)]
                         = [f |-> f, size |-> last.n, isOld |-> FALSE]
                    /\ buf.data = <<>>
               ELSE g.sinkFault)

\* C30 witness: a Sync has just returned nil, having flushed two bytes that
\* two calls of Write had left in the buffer; its job is the only one sent.
C30_Witness ==
  /\ last.op = "Sync" /\ ~last.closed /\ last.err = "nil" /\ last.n = 2
  /\ syncJobs = << [f |-> f, size |-> 2, isOld |-> FALSE] >>
  /\ g.calls = 3 /\ dirty = 0
  /\ Len(files[f].data) = 2 /\ buf.data = <<>>

\* C30 witness, failing flush: a Sync has just returned the error of its
\* flush, and no job has been sent.
C30_FailedFlushWitness ==
  /\ last.op = "Sync" /\ ~last.closed /\ last.err # "nil"
  /\ syncJobs = <<>> /\ g.hints = <<>>
  /\ buf.data # <<>>

\* ---- C31
\* The writer of the bufIO takes fewer bytes than it is offered and reports no
\* error (it is offered at least one byte whenever it is called).
ShortSink == bio.sb.err = "nil" /\ bio.sb.num < bio.sb.den

\* C31: whenever a write or a flush has called a writer that takes fewer
\* bytes than offered without an error, be it from flush or from the
\* large-write path of write, the bufIO has recorded io.ErrShortWrite.
C31_ShortWriteAlwaysRecorded ==
  [][(BufIOCall /\ ShortSink /\ bio'.last.calls > 0)
       => bio'.b.err = "ErrShortWrite"]_vars

\* C31, flush alone: a flush that has called such a writer has recorded
\* io.ErrShortWrite and returned it.
C31_FlushRecordsShortWrite ==
  [][(BufIOFlush /\ ShortSink /\ bio'.last.calls > 0)
       => bio'.b.err = "ErrShortWrite" /\ bio'.last.err = "ErrShortWrite"]_vars

\* ---- C32
\* C32: the count of bytes forwarded that a write or a flush returns is the
\* number of bytes the writer has taken during the call: 0 for a write that
\* fits the free space, the whole buffer for a write of at most a buffer
\* that finds the buffer full over a writer that works. Whatever the writer
\* does, the counts of bytes written that the calls returned sum to the
\* counts of bytes forwarded plus the bytes buffered, which are never more
\* than the capacity.
C32_EveryByteAccounted ==
  /\ [][(BufIOCall /\ ~bio'.hang)
          => /\ bio'.last.fw = Len(bio'.sink) - Len(bio.sink)
             /\ (bio'.last.op = "write" /\ bio'.last.len <= avail(bio.cap, bio.b))
                  => bio'.last.fw = 0 /\ bio'.last.calls = 0
             /\ (/\ bio'.last.op = "write" /\ bio.b.err = "nil"
                 /\ bio.cap > 0 /\ avail(bio.cap, bio.b) = 0
                 /\ bio'.last.len \in 1..bio.cap /\ bio.sb = GoodSink)
                  => bio'.last.fw = bio.cap]_vars
  /\ [](~bio.hang => /\ bio.acc = bio.fwd + buffered(bio.b)
                     /\ bio.fwd = Len(bio.sink)
                     /\ buffered(bio.b) \in 0..bio.cap)

\* C32 witness: after a write that found the buffer full and forwarded it
\* whole, a flush over a writer that takes half of the bytes and reports an
\* error has forwarded a part of the buffer and left the rest buffered.
C32_Witness ==
  /\ ~bio.hang
  /\ "fill" \in bio.paths
  /\ bio.last.op = "flush" /\ bio.last.err = "ErrClosedPipe"
  /\ bio.last.fw > 0 /\ buffered(bio.b) > 0
  /\ bio.fwd > bio.last.fw
  /\ bio.acc = bio.fwd + buffered(bio.b)

\* ---- C33
\* The bytes of the sequence s.
Bytes(s) == {s[i] : i \in 1..Len(s)}

\* C33: r.buf.reset changes the writer of the bufIO and nothing else: the
\* bytes buffered and the sticky error are after the call what they were
\* before. A byte that was buffered at a reset is never in the file reset
\* away from: it is in the buffer still, or in the file reset to or a later
\* one.
C33_ResetChangesOnlyTheSink ==
  /\ [][buf'.w # buf.w
          => /\ buf'.data = buf.data /\ buf'.err = buf.err
             /\ buf'.w = f' /\ f' # f
             /\ files'[buf'.w].data = <<>>
             /\ \A h \in 1..Len(files) : files'[h].data = files[h].data]_vars
  /\ [](\A c \in g.carried :
          /\ c.b \notin Bytes(files[c.old].data)
          /\ \A h \in 1..Len(files) : c.b \in Bytes(files[h].data) => h >= c.new
          /\ (~g.closed /\ mu = 0 /\ c.b \notin Bytes(buf.data))
               => \E h \in c.new..Len(files) : c.b \in Bytes(files[h].data))
  /\ [][\A h \in 1..Len(files) :
          files'[h].data # files[h].data => h = buf.w]_vars

\* C33 witness: a rotation has reset the buffer while it held a byte, which
\* has since been delivered to the new file.
C33_Witness ==
  /\ \E c \in g.carried : c.b \in Bytes(files[c.new].data)
  /\ ~g.closed /\ f > 1 /\ buf.w = f

\* C33, the bufIO alone: a reset, with or without a sticky error, leaves the
\* bytes buffered and the error what they were, and calls no writer.
C33_ResetKeepsBufferAndError ==
  [][bio'.b.w # bio.b.w
       => /\ bio'.b.data = bio.b.data /\ bio'.b.err = bio.b.err
          /\ bio'.sink = bio.sink]_vars

\* C33, the bufIO alone: it has been reset while it held bytes and a sticky
\* error, and holds both still.
C33_StickyWitness ==
  /\ bio.b.w # 1 /\ bio.b.err # "nil" /\ bio.b.data # <<>>
  /\ bio.last.op = "flush" /\ bio.last.calls > 0

\* ---- C34
\* C34: a sticky error of the buffer does not outlive the file it was
\* recorded against: once MaxSize more bytes have been handed to Write, at the
\* latest, the instance has rotated and reset the buffer to a new file, and
\* with no call in progress the buffer no longer holds the error.
C34_StickyErrorEndsWithRotation ==
  (AtRest /\ g.errAt >= 0 /\ g.next >= g.errAt + cfg.MaxSize) => buf.err = "nil"

\* What the code does: nothing clears the error of the buffer. Once it is set
\* it stays what it is, the instance never attempts another rotation and
\* stays on the file it has, and every Write and Sync that returns from a
\* running instance returns that error.
C34_StickyErrorIsPermanent ==
  /\ [][buf.err # "nil"
          => /\ buf'.err = buf.err /\ buf'.w = buf.w /\ f' = f
             /\ g'.attempts = g.attempts /\ g'.rotated = g.rotated
             /\ fileWritten' \in {fileWritten, 0}]_vars
  /\ []((buf.err # "nil" /\ last.op \in {"Write", "Sync"} /\ ~last.closed)
          => last.err = buf.err)
  /\ [](g.errAt >= 0 <=> buf.err # "nil")

\* ---- C35
\* C35: whatever the interleaving of Close with a Write or a Sync that has
\* passed its isClosed check, the call never comes to send on r.syncJobs after
\* Close has closed it, and never comes to use r.buf after Close has set it to
\* nil: no call panics.
C35_CloseNeverHarmsCallInProgress ==
  \A p \in Procs :
    /\ pc[p] # "panic"
    /\ pc[p] \in {"w_flush", "w_retire", "s_send"} => ~chClosed
    /\ pc[p] \in {"w_lock", "s_lock"} => ~bufNil

\* C35, the channel alone: no call is at a send with the channel closed.
C35_NoSendOnClosedChannel ==
  \A p \in Procs : pc[p] \in {"w_flush", "w_retire", "s_send"} => ~chClosed

\* C35, the buffer alone: no call is before its r.buf.write or r.buf.flush
\* with r.buf nil.
C35_NoUseOfNilBuffer ==
  \A p \in Procs : pc[p] \in {"w_lock", "s_lock"} => ~bufNil

\* What the code keeps: a call at a send is not left waiting once the sync
\* loop has exited and Close has gone on, for Close then closes the channel;
\* the send panics.
C35_BlockedSenderIsWoken ==
  [][\A p \in Procs :
       (pc[p] \in {"w_flush", "w_retire", "s_send"} /\ chClosed /\ pc'[p] # pc[p])
         => pc'[p] = "panic"]_vars

\* ---- C36
\* C36: once Close has completed every file the instance has opened has been
\* closed exactly once: no handle is left open and none has been closed twice.
C36_EveryHandleClosedOnce ==
  CloseCompleted => \A h \in 1..Len(files) : files[h].closes = 1

\* C36, no handle left open: the same without a failed open() and without
\* calls that overlap, for the handles closed at least once.
C36_NoHandleLeftOpen ==
  (CloseCompleted /\ ~g.openFail /\ ~g.concurrent)
    => \A h \in 1..Len(files) : files[h].closes >= 1

\* C36, no handle closed twice.
C36_NoHandleClosedTwice ==
  \A h \in 1..Len(files) : files[h].closes <= 1

\* What the code keeps: without a failed open() no handle is closed twice, the
\* active handle is closed when Close has completed, and a handle left open
\* is one whose RetireFile job is still in the channel.
C36_ClosedOnceWithoutFailedOpen ==
  ~g.openFail =>
    /\ \A h \in 1..Len(files) : files[h].closes <= 1
    /\ CloseCompleted =>
         /\ files[f].closes = 1
         /\ \A h \in 1..Len(files) :
              files[h].closes = 0
                => \E i \in 1..Len(syncJobs) : syncJobs[i].isOld /\ syncJobs[i].f = h

\* ---- C37
\* C37: bufIO.write returns whatever the writer does: every iteration of its
\* loop takes at least one byte off p or sets the sticky error.
C37_WriteTerminates == ~bio.hang

\* What the code keeps: the only write that does not return is one that
\* reaches the large-write path over a writer that takes fewer bytes than
\* offered and reports no error, and takes none of what is left of p; the
\* buffer is empty and no error is set.
C37_OnlyTheSilentSinkHangs ==
  bio.hang =>
    /\ ShortSink
    /\ bio.last.op = "write" /\ bio.last.len > bio.cap
    /\ "bypass" \in bio.paths
    /\ bio.b.err = "nil" /\ bio.b.data = <<>>

\* ---- C38
\* The backup files of the directory that carry a time other than second 0
\* (listBackups takes a file of second 0 for no backup).
BackupFiles == {x \in disk.bk : tsOf(x.stamp) # 0}

\* C38: after any sequence of open() calls, those that read the same
\* millisecond off the clock included, the backups held name pairwise
\* distinct paths, each the path of a backup file that exists, and they are as
\* many as the backup files: a rename never replaces a backup.
C38_BackupsNameDistinctExistingFiles ==
  /\ [](/\ \A i, j \in 1..Len(backups) : i # j => backups[i].fp # backups[j].fp
        /\ \A i \in 1..Len(backups) : \E x \in disk.bk : x.stamp = backups[i].fp
        /\ Len(backups) = Cardinality(BackupFiles))
  /\ [][\A x \in disk.bk :
          (\E y \in disk'.bk : y.stamp = x.stamp) => x \in disk'.bk]_vars

\* C38, the set alone: the first three parts, about the backups held.
C38_BackupSetMatchesDirectory ==
  /\ \A i, j \in 1..Len(backups) : i # j => backups[i].fp # backups[j].fp
  /\ \A i \in 1..Len(backups) : \E x \in disk.bk : x.stamp = backups[i].fp
  /\ Len(backups) = Cardinality(BackupFiles)

\* What the code keeps: as long as no open() has renamed the output file to
\* the name of a backup that was there, the backups held name distinct files
\* that exist and are as many as the backup files.
C38_DistinctWithoutSameStamp ==
  ~g.clash => C38_BackupSetMatchesDirectory

\* ---- C39
\* C39: in every state of the circular buffer cons and prod are in
\* 0..size-1, isFull implies prod = cons, and what can be read and what can be
\* written sum to size; a Write of more than can be written returns
\* ErrNoAvailWrite and a read of more than can be read returns ErrNoAvailRead,
\* both leaving the buffer as it is, while every other Write and read
\* returns nil.
C39_RingBufferWellFormed ==
  /\ ring.cons \in 0..(size(ring) - 1)
  /\ ring.prod \in 0..(size(ring) - 1)
  /\ ring.isFull => ring.prod = ring.cons
  /\ getAvailRead(ring) + getAvailWrite(ring) = size(ring)
  /\ getAvailRead(ring) \in 0..size(ring)
  /\ \A n \in 0..(size(ring) + 1) :
       LET w == buffer_Write(ring, Payload(rs.next, n))
           r == buffer_read(ring, n)
       IN /\ IF n > getAvailWrite(ring)
               THEN w.err = "ErrNoAvailWrite" /\ w.b = ring
               ELSE w.err = "nil"
          /\ IF n > getAvailRead(ring)
               THEN r.err = "ErrNoAvailRead" /\ r.b = ring
               ELSE r.err = "nil" /\ Len(r.p) = n

\* C39 witness: the buffer is full with cons and prod in its middle, after a
\* read and a Write that has wrapped round, and a producer's Write has just
\* been refused.
C39_Witness ==
  /\ ring.isFull /\ ring.cons > 0 /\ ring.prod = ring.cons
  /\ \E p \in Procs : rs.pc[p] = "send" /\ rs.res[p].err = "ErrNoAvailWrite"

\* ---- C40
\* C40: in the file-write loop the count n of the notifications received is
\* never more than BufSize, so the slice p[:n] of the scratch array is always
\* in range, whatever the interleaving of the producers' Writes, their
\* notifications and the drain-all of Sync.
C40_CountWithinScratchArray ==
  /\ rs.n <= rs.cfg.BufSize
  /\ ~rs.panicked

\* What the code keeps: the bytes the loop counts and has not yet read are
\* never fewer than the bytes the buffer holds for it less those whose
\* notification is still to come; the count itself is bounded only by the
\* bytes handed to Write.
C40_CountWithinBytesWritten ==
  rs.n <= rs.next

====
